---- MODULE Spec2Model ----
(***************************************************************************)
(* Exhibition-floor viewer: booth feed fetcher, area-data hook, mesh        *)
(* mapper, callout bookkeeping and the idle auto-tour of the 3D scene.      *)
(*                                                                          *)
(* JavaScript strings that the code inspects character by character (booth  *)
(* ids, status cells, mesh names) are sequences of one-character strings.   *)
(* Identifiers the code only compares as a whole (area ids, colours) are    *)
(* plain strings.                                                           *)
(***************************************************************************)
EXTENDS Integers, Sequences, FiniteSets, Bags, TLC

(***************************************************************************)
(* Bounds of the model.                                                     *)
(***************************************************************************)
\* longest feed (rows of one response) the data specification draws
MaxRows == 2
\* most fetches of the hook that may be in flight together
MaxInFlight == 2
\* most objects of a scene, and most booths of a list, the mapper specification draws
MaxMeshes == 3
MaxBooths == 2
\* most animations, fly-arounds and tour timers in flight when the idle timer
\* may start another tour
MaxChains == 2
\* most pending set-up callbacks of scenes when the scene may be rebuilt again
MaxCallbacks == 2

(***************************************************************************)
(* JavaScript string primitives.                                            *)
(***************************************************************************)
UpperAlpha == <<"A","B","C","D","E","F","G","H","I","J","K","L","M",
                "N","O","P","Q","R","S","T","U","V","W","X","Y","Z">>

LowerAlpha == <<"a","b","c","d","e","f","g","h","i","j","k","l","m",
                "n","o","p","q","r","s","t","u","v","w","x","y","z">>

AlphaIndex(alpha, c) == CHOOSE i \in 1..Len(alpha) : alpha[i] = c

LowerChar(c) ==
  IF \E i \in 1..Len(UpperAlpha) : UpperAlpha[i] = c
  THEN LowerAlpha[AlphaIndex(UpperAlpha, c)] ELSE c

UpperChar(c) ==
  IF \E i \in 1..Len(LowerAlpha) : LowerAlpha[i] = c
  THEN UpperAlpha[AlphaIndex(LowerAlpha, c)] ELSE c

\* String.prototype.toLowerCase / toUpperCase
toLowerCase(s) == [i \in 1..Len(s) |-> LowerChar(s[i])]

toUpperCase(s) == [i \in 1..Len(s) |-> UpperChar(s[i])]

\* String.prototype.trim (the feeds of the model hold blanks only)
trim(s) ==
  LET nonBlank == {i \in 1..Len(s) : s[i] # " "}
      Min(S) == CHOOSE x \in S : \A y \in S : x <= y
      Max(S) == CHOOSE x \in S : \A y \in S : x >= y
  IN IF nonBlank = {} THEN <<>> ELSE SubSeq(s, Min(nonBlank), Max(nonBlank))

\* String.prototype.startsWith
startsWith(s, p) == Len(p) <= Len(s) /\ SubSeq(s, 1, Len(p)) = p

\* String.prototype.includes
includes(s, p) ==
  \E i \in 1..(Len(s) + 1) : i + Len(p) - 1 <= Len(s) /\ SubSeq(s, i, i + Len(p) - 1) = p

\* String.prototype.replace(from, to) with one-character strings: the first
\* occurrence only
replaceFirst(s, from, to) ==
  IF \E i \in 1..Len(s) : s[i] = from
  THEN LET k == CHOOSE i \in 1..Len(s) : s[i] = from /\ \A j \in 1..(i - 1) : s[j] # from
       IN SubSeq(s, 1, k - 1) \o to \o SubSeq(s, k + 1, Len(s))
  ELSE s

Digits == <<"0","1","2","3","4","5","6","7","8","9">>

IsDigit(c) == \E i \in 1..Len(Digits) : Digits[i] = c

DigitValue(c) == (CHOOSE i \in 1..Len(Digits) : Digits[i] = c) - 1

RECURSIVE DigitsValue(_)
DigitsValue(s) ==
  IF s = <<>> THEN 0 ELSE 10 * DigitsValue(SubSeq(s, 1, Len(s) - 1)) + DigitValue(s[Len(s)])

\* parseFloat(s) || 0 on the unsigned whole numbers of the feed: the longest
\* leading run of digits, and 0 when there is none (NaN is falsy)
parseFloatOrZero(s) ==
  LET stop == {i \in 1..Len(s) : ~IsDigit(s[i])}
      n == IF stop = {} THEN Len(s)
           ELSE (CHOOSE i \in stop : \A j \in stop : i <= j) - 1
  IN DigitsValue(SubSeq(s, 1, n))

(***************************************************************************)
(* String literals of the code.                                             *)
(***************************************************************************)
StrSold == <<"s","o","l","d">>

StrReserved == <<"r","e","s","e","r","v","e","d">>

StrAvailable == <<"a","v","a","i","l","a","b","l","e">>

StrNil == <<"n","i","l">>

StrAvailableCap == <<"A","v","a","i","l","a","b","l","e">>

StrUndefined == <<"u","n","d","e","f","i","n","e","d">>

PrefixB == <<"B","-">>

PrefixC == <<"C","-">>

PrefixE == <<"E","-">>

(***************************************************************************)
(* Booth feed fetcher (services/googleSheets).                              *)
(* A cell of a row is absent (undefined), null, or a string.                *)
(***************************************************************************)
CellUndefined == [t |-> "undefined", v |-> <<>>]

CellNull == [t |-> "null", v |-> <<>>]

Cell(s) == [t |-> "string", v |-> s]

\* a normalisation that only lowers the case
normalizeStatusKeeping(sheetStatus) == toLowerCase(sheetStatus)

normalizeStatus(sheetStatus) ==
  LET status == toLowerCase(sheetStatus)
  IN IF status = StrSold THEN StrSold
     ELSE IF status = StrReserved THEN StrReserved
     ELSE StrAvailable

getStringValue(value, fallback) ==
  IF value.t = "null" \/ value.t = "undefined" \/ value.v = StrUndefined
  THEN fallback
  ELSE trim(value.v)

ColorSold == "#66aaff"

ColorReserved == "#ffaa66"

ColorAvailable == "#cccccc"

ColorNil == "#ff69b4"

getColorForStatus(status) ==
  IF status = StrSold THEN ColorSold
  ELSE IF status = StrReserved THEN ColorReserved
  ELSE IF status = StrAvailable THEN ColorAvailable
  ELSE IF status = StrNil THEN ColorNil
  ELSE ColorAvailable

\* the status a row gets: `getStringValue(row.status) || 'Available'`, then the
\* emptiness test, then normalizeStatus
RowStatus(row) ==
  LET got == getStringValue(row.status, <<>>)
      status == IF got = <<>> THEN StrAvailableCap ELSE got
      isEmptyStatus == status = <<>> \/ status = StrUndefined \/ trim(status) = <<>>
  IN IF isEmptyStatus THEN StrNil ELSE normalizeStatus(status)

\* a Booth built with the colour of 'available' whatever its status
RowBoothOneColor(row) ==
  [id     |-> getStringValue(row.id, <<>>),
   name   |-> getStringValue(row.name, <<>>),
   width  |-> parseFloatOrZero(getStringValue(row.width, <<>>)),
   height |-> parseFloatOrZero(getStringValue(row.lenght, <<>>)),
   area   |-> parseFloatOrZero(getStringValue(row.area, <<>>)),
   status |-> RowStatus(row),
   color  |-> ColorAvailable]

\* the Booth built from a row with an id
RowBooth(row) ==
  LET normalizedStatus == RowStatus(row)
  IN [id     |-> getStringValue(row.id, <<>>),
      name   |-> getStringValue(row.name, <<>>),
      width  |-> parseFloatOrZero(getStringValue(row.width, <<>>)),
      height |-> parseFloatOrZero(getStringValue(row.lenght, <<>>)),
      area   |-> parseFloatOrZero(getStringValue(row.area, <<>>)),
      status |-> normalizedStatus,
      color  |-> getColorForStatus(normalizedStatus)]

\* Map.prototype.set on a Map kept as the sequence of its values in insertion
\* order: a key already present keeps its place and takes the new value
MapSet(boothMap, booth) ==
  IF \E i \in 1..Len(boothMap) : boothMap[i].id = booth.id
  THEN [i \in 1..Len(boothMap) |->
          IF boothMap[i].id = booth.id THEN booth ELSE boothMap[i]]
  ELSE Append(boothMap, booth)

RECURSIVE ProcessRows(_, _)
ProcessRows(rows, boothMap) ==
  IF rows = <<>> THEN boothMap
  ELSE LET row == Head(rows)
           id == getStringValue(row.id, <<>>)
       IN ProcessRows(Tail(rows),
                      IF id # <<>> THEN MapSet(boothMap, RowBooth(row)) ELSE boothMap)

\* A response of the feed: the request fails (network error, non-OK status,
\* unparsable body) or delivers rows.
ResponseOk(rows) == [kind |-> "ok", rows |-> rows]

ResponseFailed(kind) == [kind |-> kind, rows |-> <<>>]

FailureKinds == {"network_error", "not_ok", "unparsable"}

\* fetchBoothInfoFromSheets: the values of the returned Map, in order; every
\* failure is caught and gives the empty Map
fetchBoothInfoFromSheets(response) ==
  IF response.kind = "ok" THEN ProcessRows(response.rows, <<>>) ELSE <<>>


(***************************************************************************)
(* The feeds the specifications draw.                                       *)
(***************************************************************************)
Row(id, status, name, width, lenght, area) ==
  [id |-> id, status |-> status, name |-> name, width |-> width,
   lenght |-> lenght, area |-> area]

RowAcme ==
  Row(Cell(<<"B","-","1">>), Cell(<<"S","o","l","d">>), Cell(<<"A","c","m","e">>),
      Cell(<<"5">>), Cell(<<"3">>), Cell(<<"1","5">>))

RowAcmeReserved ==
  Row(Cell(<<"B","-","1">>), Cell(<<"R","E","S","E","R","V","E","D">>), Cell(<<"A","c","m","e">>),
      Cell(<<"5">>), Cell(<<"3">>), Cell(<<"1","5">>))

RowEmptyStatus ==
  Row(Cell(<<"C","-","1">>), Cell(<<>>), Cell(<<>>), CellUndefined, CellUndefined, CellUndefined)

RowNoStatus ==
  Row(Cell(<<"E","-","1">>), CellUndefined, Cell(<<"E","o","n">>), CellUndefined, CellUndefined,
      CellUndefined)

RowUndefinedStatus ==
  Row(Cell(<<"B","-","2">>), Cell(StrUndefined), CellNull, CellUndefined, CellUndefined,
      CellUndefined)

RowPaddedUndefined ==
  Row(Cell(<<"C","-","2">>), Cell(<<" ">> \o StrUndefined), CellNull, CellUndefined,
      CellUndefined, CellUndefined)

RowNoId ==
  Row(CellUndefined, Cell(<<"S","o","l","d">>), Cell(<<"A","n","o","n">>), CellUndefined, CellUndefined,
      CellUndefined)

RowOtherEvent ==
  Row(Cell(<<"A","-","1">>), Cell(StrAvailable), CellNull, Cell(<<"2","m">>), CellUndefined,
      CellUndefined)

RowAcmeMixedCase ==
  Row(Cell(<<"B","-","1">>), Cell(<<"s","O","L","D">>), Cell(<<"A","c","m","e">>),
      Cell(<<"5">>), Cell(<<"3">>), Cell(<<"1","5">>))

RowUnknownStatus ==
  Row(Cell(<<"E","-","2">>), Cell(<<"B","o","o","k","e","d">>), Cell(<<"E","o","n">>),
      CellUndefined, CellUndefined, CellUndefined)

FeedRows == {RowAcme, RowAcmeReserved, RowEmptyStatus, RowNoStatus, RowUndefinedStatus,
             RowPaddedUndefined, RowNoId, RowOtherEvent, RowUnknownStatus,
             RowAcmeMixedCase}

SeqsUpTo(S, n) == UNION {[1..k -> S] : k \in 0..n}

\* every response the fetcher specification draws
Responses ==
  {ResponseFailed(k) : k \in FailureKinds} \cup {ResponseOk(rows) : rows \in SeqsUpTo(FeedRows, MaxRows)}

\* the responses the hook specification draws: the failures, and feeds of both
\* events with booths of several halls, a row without id and a repeated id
HookFeeds ==
  {<<>>, <<RowAcme>>, <<RowAcme, RowEmptyStatus>>, <<RowEmptyStatus, RowAcme>>,
   <<RowAcme, RowAcmeReserved>>, <<RowOtherEvent, RowNoStatus>>, <<RowNoId, RowOtherEvent>>}

HookResponses ==
  {ResponseFailed(k) : k \in FailureKinds} \cup {ResponseOk(rows) : rows \in HookFeeds}

\* fetchBoothInfoFromSheets of every response drawn, evaluated once
FetchedBooths == [r \in Responses \cup HookResponses |-> fetchBoothInfoFromSheets(r)]

\* the areas the user switches between in the model: a single hall, the
\* overview and the other event
AreasShown == {"Hall_C", "all_in_one", "MainExhibitionHall"}

(***************************************************************************)
(* State.                                                                   *)
(***************************************************************************)
VARIABLES
  \* App and the area-data hook (hooks/useAreaData)
  currentArea,       \* App state: the area selected in the UI
  effectArea,        \* areaId captured by the hook's effect and its interval
  development,       \* NODE_ENV === 'development': the polling interval runs
  pending,           \* areaIds of the loadAreaDataFromSheets calls in flight
  data,              \* hook state `data` (NoData is null)
  lastDataHash,      \* lastDataHashRef.current (NoHash is null)
  loading,           \* hook state `loading`
  lastRun,           \* the load that completed last: its area, response, and
                     \* whether it called setData (NoRun before the first)
  \* one call of the fetcher on a drawn response
  fetchResponse,     \* what the feed answers
  fetchReturned,     \* whether fetchBoothInfoFromSheets has returned
  fetchResult,       \* the Map it returned: its values in insertion order
  \* one call of MeshManager.mapBoothMeshes on a drawn scene and booth list
  mapScene,          \* the objects of the scene in traversal order
  mapBooths,         \* the booths handed to mapBoothMeshes
  meshMap,           \* the Map<Mesh, Booth>: per object of the scene its booth
  mapLookups,        \* per booth of the list, how its mesh was looked up
  mapDone,           \* whether mapBoothMeshes has returned
  mapBefore,         \* the Map as mapBoothMeshes found it at its last call (history)
  \* the WebGL scene component (WebGLScene)
  showExhibitorDetails,      \* App state: the exhibitor-details switch
  modelLoaded,               \* the live scene holds its loaded model
  timers,                    \* bag of the pending setTimeout callbacks and
                             \* model loads, each with what its closure holds
  boothMeshMap,              \* boothMeshMapRef.current
  callouts,                  \* calloutsRef.current: the tracked info callouts
  nameCallouts,              \* nameCalloutsRef.current
  lastClickedBooth,          \* lastClickedBoothRef.current (NoBooth is null)
  clicks,                    \* the booths clicked one after the other since no
                             \* info callout was visible (history)
  \* the idle auto-tour (WebGLScene and CameraAnimator)
  autoTourActive,            \* autoTourActiveRef.current
  currentAutoTourIndex,      \* currentAutoTourIndexRef.current
  autoTourTimeoutPending,    \* the timer of autoTourTimeoutRef is pending
  lastInteractionAtArm,      \* lastInteractionTimeRef was last written by the
                             \* call that armed the pending idle timer
  activeAutoTourAnimationId, \* CameraAnimator static (0 is null)
  activeAutoTourMotionId,    \* CameraAnimator static (0 is null)
  rafQueue,                  \* requested animation frames, oldest first
  controlsEnabled,           \* controls.enabled of the live OrbitControls
  lastFrame,                 \* the auto-tour frame that ran last (history)
  visited,                   \* the hall startAutoTour headed for last (history)
  arrived,                   \* the hall the camera reached last since the tour was
                             \* last stopped (history)
  \* the materials of one loaded model (MaterialManager)
  matBooths,         \* areaData.booths of the render
  matMeshMap,        \* boothMeshMapRef.current: per object of the model its booth
  matPhase,          \* how far initModel has got: "loaded", "mapped", "coloured"
  meshes,            \* per mesh its material object, that material's state and
                     \* the mesh's userData
  hovered,           \* the closure variable `hovered` (0 is null)
  hoverBegan,        \* the colour the hovered mesh had when its hover began
                     \* (history)
  lastUnhover,       \* the removeHoverEffect that ran last (history)
  \* one camera animation (CameraAnimator.animateCameraToPosition)
  animStart,         \* startPosition and startTarget
  animGoal,          \* targetPosition and targetLookAt
  animElapsed,       \* Date.now() - startTime at the frame that ran last
  animPending,       \* a frame of animateCamera is requested
  camera,            \* camera.position and controls.target
  \* callout sprites and their arrays (CalloutManager)
  sceneSprites,      \* the sprites that are children of the scene
  calloutArrays,     \* the tracked arrays: info (calloutsRef.current) and
                     \* name (nameCalloutsRef.current)
  disposedTextures,  \* the sprites whose material.map was disposed
  disposedMaterials, \* the sprites whose material was disposed
  spritesCreated,    \* how many sprites were created so far
  clearSteps         \* the steps of the clearCallouts that ran last, in the
                     \* order it took them (history)

hookVars == <<currentArea, effectArea, development, pending, data, lastDataHash,
              loading, lastRun>>

fetchVars == <<fetchResponse, fetchReturned, fetchResult>>

mapVars == <<mapScene, mapBooths, meshMap, mapLookups, mapDone, mapBefore>>

calloutVars == <<showExhibitorDetails, modelLoaded, boothMeshMap, callouts,
                 nameCallouts, lastClickedBooth, clicks>>

tourVars == <<autoTourActive, currentAutoTourIndex, autoTourTimeoutPending,
              lastInteractionAtArm, activeAutoTourAnimationId, activeAutoTourMotionId,
              rafQueue, controlsEnabled, lastFrame, visited, arrived>>

sceneVars == <<timers, calloutVars, tourVars>>

materialVars == <<matBooths, matMeshMap, matPhase, meshes, hovered, hoverBegan,
                  lastUnhover>>

\* the variables of the specifications of single classes and functions
cameraVars == <<animStart, animGoal, animElapsed, animPending, camera>>

spriteVars == <<sceneSprites, calloutArrays, disposedTextures, disposedMaterials,
                spritesCreated, clearSteps>>

pureVars == <<materialVars, cameraVars, spriteVars>>

vars == <<hookVars, fetchVars, mapVars, sceneVars, pureVars>>

(***************************************************************************)
(* Area-data hook (hooks/useAreaData).                                      *)
(***************************************************************************)
Areas == {"Hall_B_2", "Hall_C", "Hall_E_3", "all_in_one", "MainExhibitionHall"}

EnergyAreas == {"Hall_B_2", "Hall_C", "Hall_E_3", "all_in_one"}

NoData == [null |-> TRUE]

NoHash == <<>>

NoRun == [null |-> TRUE]

getEventType(areaId) ==
  IF areaId = "MainExhibitionHall" THEN "techdays" ELSE "energy"

IsEnergyBooth(booth) ==
  \/ startsWith(booth.id, PrefixB)
  \/ startsWith(booth.id, PrefixC)
  \/ startsWith(booth.id, PrefixE)

\* the booths the hook keeps of the fetched ones
FilterBooths(areaId, allBooths) ==
  IF areaId \in EnergyAreas THEN SelectSeq(allBooths, IsEnergyBooth) ELSE allBooths

AreaNameOf(areaId) ==
  CASE areaId = "all_in_one" -> "Exhibition OTD Energy"
    [] areaId = "Hall_C" -> "Exhibition Hall C"
    [] areaId = "Hall_B_2" -> "Exhibition Hall B"
    [] areaId = "Hall_E_3" -> "Exhibition Hall E"
    [] areaId = "MainExhibitionHall" -> "Main Exhibition Hall"
    [] OTHER -> "Exhibition Area"

MakeAreaData(areaId, boothMap) ==
  [areaId |-> areaId, areaName |-> AreaNameOf(areaId),
   booths |-> FilterBooths(areaId, boothMap)]

\* JSON.stringify of the projection: the members in the order they are written
DataHash(areaData) ==
  <<areaData.areaId, areaData.areaName,
    [i \in 1..Len(areaData.booths) |->
       LET booth == areaData.booths[i]
       IN <<booth.id, booth.name, booth.status, booth.color,
            booth.width, booth.height, booth.area>>]>>

\* a comparison that never finds the hash unchanged
HashChangedAlways(dataHash, last) == TRUE

\* `dataHash !== lastDataHashRef.current`
HashChanged(dataHash, last) == dataHash # last

\* the hook part of one completed loadAreaDataFromSheets
LoadAreaData(areaId, response) ==
  LET boothMap == FetchedBooths[response]
      areaData == MakeAreaData(areaId, boothMap)
      dataHash == DataHash(areaData)
      changed == HashChanged(dataHash, lastDataHash)
  IN /\ lastDataHash' = IF changed THEN dataHash ELSE lastDataHash
     /\ data' = IF changed THEN areaData ELSE data
     /\ loading' = FALSE
     /\ lastRun' = [area |-> areaId, response |-> response, updated |-> changed]

RemoveAt(s, i) == SubSeq(s, 1, i - 1) \o SubSeq(s, i + 1, Len(s))

\* a pending load completes with the response the feed gives it
LoadComplete(i, response) ==
  /\ i \in 1..Len(pending)
  /\ LoadAreaData(pending[i], response)
  /\ pending' = RemoveAt(pending, i)
  /\ UNCHANGED <<currentArea, effectArea, development>>

\* the 5 s interval of the effect fires (development builds only)
PollTick ==
  /\ development
  /\ Len(pending) < MaxInFlight
  /\ pending' = Append(pending, effectArea)
  /\ UNCHANGED <<currentArea, effectArea, development, data, lastDataHash, loading,
                 lastRun>>

\* the user picks an area in the selector (rendered once loading is over); the
\* hook's effect runs again only when the event type changes
SelectArea(a) ==
  /\ ~loading
  /\ a # currentArea
  /\ currentArea' = a
  /\ IF getEventType(a) # getEventType(currentArea)
     THEN /\ Len(pending) < MaxInFlight
          /\ effectArea' = a
          /\ pending' = Append(pending, a)
     ELSE UNCHANGED <<effectArea, pending>>
  /\ UNCHANGED <<development, data, lastDataHash, loading, lastRun>>

\* App starts on Hall_C; the hook's effect has started the first load
HookInit ==
  /\ currentArea = "Hall_C"
  /\ effectArea = "Hall_C"
  /\ development \in BOOLEAN
  /\ pending = <<"Hall_C">>
  /\ data = NoData
  /\ lastDataHash = NoHash
  /\ loading = TRUE
  /\ lastRun = NoRun

(***************************************************************************)
(* One call of the fetcher.                                                 *)
(***************************************************************************)
\* fetchBoothInfoFromSheets runs on the response it awaited
FetchBoothInfo ==
  /\ ~fetchReturned
  /\ fetchReturned' = TRUE
  /\ fetchResult' = fetchBoothInfoFromSheets(fetchResponse)
  /\ UNCHANGED fetchResponse

\* the next request gets its response
NextRequest ==
  /\ fetchReturned
  /\ fetchResponse' \in Responses
  /\ fetchReturned' = FALSE
  /\ fetchResult' = <<>>

\* no fetcher call is followed
FetcherIdle ==
  fetchResponse = ResponseOk(<<>>) /\ fetchReturned = FALSE /\ fetchResult = <<>>

\* the hook does not run
HookIdle ==
  /\ currentArea = "Hall_C"
  /\ effectArea = "Hall_C"
  /\ development = FALSE
  /\ pending = <<>>
  /\ data = NoData
  /\ lastDataHash = NoHash
  /\ loading = TRUE
  /\ lastRun = NoRun

(***************************************************************************)
(* Mesh mapper (utils/meshUtils, MeshManager).                              *)
(* A scene is the sequence of its objects in traversal order; an object is  *)
(* identified by its place in the sequence, and 0 stands for null.          *)
(***************************************************************************)
LayerPrefix == <<"B","O","O","T","H","L","A","Y","E","R","_","c","u","r","v","e","_">>

LayerDotPrefix == LayerPrefix \o <<".">>

BoothCapPrefix == <<"B","o","o","t","h","_">>

BoothPrefix == <<"b","o","o","t","h","_">>

generateMeshNamePatterns(boothId) ==
  << LayerDotPrefix \o boothId,
     LayerPrefix \o boothId,
     boothId,
     BoothCapPrefix \o boothId,
     BoothPrefix \o boothId,
     replaceFirst(boothId, "-", <<"_">>),
     toLowerCase(boothId),
     toUpperCase(boothId) >>

\* the last object the traversal meets for which `test` holds, or 0: the
\* callback overwrites its result at every match
LastInTraversal(scene, test(_)) ==
  LET hits == {i \in 1..Len(scene) : test(scene[i])}
  IN IF hits = {} THEN 0 ELSE CHOOSE i \in hits : \A j \in hits : j <= i

findMeshByName(scene, nameToFind) ==
  LET Matches(object) == object.mesh /\ object.name = nameToFind
  IN LastInTraversal(scene, Matches)

findMeshByPartialMatch(scene, boothId) ==
  LET Matches(object) ==
        /\ object.mesh
        /\ object.name # <<>>
        /\ \/ includes(object.name, boothId)
           \/ includes(object.name, replaceFirst(boothId, "-", <<"_">>))
           \/ includes(object.name, replaceFirst(boothId, "-", <<>>))
  IN LastInTraversal(scene, Matches)

\* the loop over possibleMeshNames: the mesh of the first pattern that names
\* one, or 0
RECURSIVE FindByPatterns(_, _)
FindByPatterns(scene, possibleMeshNames) ==
  IF possibleMeshNames = <<>> THEN 0
  ELSE LET foundMesh == findMeshByName(scene, Head(possibleMeshNames))
       IN IF foundMesh # 0 THEN foundMesh
          ELSE FindByPatterns(scene, Tail(possibleMeshNames))

NoBooth == [null |-> TRUE]

\* meshMap.clear()
ClearedMeshMap(scene) == [i \in 1..Len(scene) |-> NoBooth]

\* the body of booths.forEach for one booth: the mesh found and how
LookupMesh(scene, booth) ==
  LET exact == FindByPatterns(scene, generateMeshNamePatterns(booth.id))
      foundMesh == IF exact # 0 THEN exact ELSE findMeshByPartialMatch(scene, booth.id)
  IN [mesh |-> foundMesh,
      how  |-> IF exact # 0 THEN "exact" ELSE IF foundMesh # 0 THEN "partial" ELSE "none"]

\* booths.forEach: meshMap.set(foundMesh, booth) for every booth with a mesh
RECURSIVE SetFoundMeshes(_, _, _)
SetFoundMeshes(scene, booths, map) ==
  IF booths = <<>> THEN map
  ELSE LET found == LookupMesh(scene, Head(booths))
       IN SetFoundMeshes(scene, Tail(booths),
                         IF found.mesh # 0
                         THEN [map EXCEPT ![found.mesh] = Head(booths)]
                         ELSE map)

mapBoothMeshes(scene, booths) == SetFoundMeshes(scene, booths, ClearedMeshMap(scene))

\* The objects the mapper specification builds its scenes from.
Object(name, isMesh) == [name |-> name, mesh |-> isMesh]

IdB1 == <<"B","-","1">>

IdB10 == <<"B","-","1","0">>

IdB2 == <<"B","-","2">>

IdC1 == <<"C","-","1">>

ObjectPool ==
  { Object(LayerDotPrefix \o IdB10, TRUE),
    Object(LayerDotPrefix \o IdC1, TRUE),
    Object(LayerPrefix \o IdB1, TRUE),
    Object(<<"B","_","1">>, TRUE),
    Object(<<"B","-","1","-","e","x","t","r","a">>, TRUE),
    Object(<<"x","B","1">>, TRUE),
    Object(<<"F","l","o","o","r">>, TRUE),
    Object(LayerPrefix \o IdB1, FALSE) }

MapperBooth(id) ==
  [id |-> id, name |-> <<>>, width |-> 0, height |-> 0, area |-> 0,
   status |-> StrAvailable, color |-> ColorAvailable]

MapperIds == {IdB1, IdB10, IdC1}

\* booth lists come from a Map keyed by id: their ids differ
BoothLists ==
  {ids \in SeqsUpTo(MapperIds, MaxBooths) :
     \A i, j \in 1..Len(ids) : i # j => ids[i] # ids[j]}

\* a Map whose entries are left in place
keepEntries(map) == map

\* meshMap.clear() on the Map the caller passes in
clear(map) == [i \in 1..Len(map) |-> NoBooth]

MapBoothMeshes ==
  /\ ~mapDone
  /\ meshMap' = SetFoundMeshes(mapScene, mapBooths, clear(meshMap))
  /\ mapBefore' = meshMap
  /\ mapLookups' = [i \in 1..Len(mapBooths) |-> LookupMesh(mapScene, mapBooths[i]).how]
  /\ mapDone' = TRUE
  /\ UNCHANGED <<mapScene, mapBooths>>

\* the booths change and the same scene is mapped again, into the Map that
\* still holds the entries of the mapping before
NextBooths ==
  /\ mapDone
  /\ mapBooths' \in {[i \in 1..Len(ids) |-> MapperBooth(ids[i])] : ids \in BoothLists}
  /\ mapLookups' = <<>>
  /\ mapDone' = FALSE
  /\ UNCHANGED <<mapScene, meshMap, mapBefore>>

MapperIdle ==
  /\ mapScene = <<>>
  /\ mapBooths = <<>>
  /\ meshMap = <<>>
  /\ mapLookups = <<>>
  /\ mapDone = FALSE
  /\ mapBefore = <<>>

(***************************************************************************)
(* The WebGL scene (WebGLScene): models, callbacks in flight, mesh map and  *)
(* callouts.                                                                *)
(*                                                                          *)
(* A rebuild of the scene (cleanup and re-run of the main effect) replaces  *)
(* scene, camera, controls and canvas.  What belongs to the scene on screen *)
(* is `live`; callbacks, meshes and sprites of a superseded scene are not.  *)
(***************************************************************************)
\* The models the scene specifications load: per area the objects of the
\* model in traversal order.
ModelScene(area) ==
  CASE area = "Hall_C" ->
         << Object(<<"F","l","o","o","r">>, TRUE),
            Object(LayerDotPrefix \o IdC1, TRUE) >>
    [] area = "Hall_B_2" ->
         << Object(LayerDotPrefix \o IdB1, TRUE),
            Object(LayerDotPrefix \o IdB2, TRUE),
            Object(<<"F","l","o","o","r">>, TRUE) >>
    [] OTHER ->
         << Object(LayerDotPrefix \o IdB1, TRUE),
            Object(LayerDotPrefix \o IdB2, TRUE),
            Object(LayerDotPrefix \o IdC1, TRUE) >>

\* the feeds of the scene specifications: two booths of hall B, one of them
\* named, and the same feed after the named booth changed its status
SceneFeed == ResponseOk(<<RowAcme, RowUndefinedStatus>>)

SceneFeedChanged == ResponseOk(<<RowAcmeReserved, RowUndefinedStatus>>)

EmptyFeed == ResponseOk(<<>>)

SceneResponses == {SceneFeed, SceneFeedChanged}

SceneAreas == {"Hall_C", "Hall_B_2"}

TourAreas == {"Hall_C", "all_in_one"}

\* MeshManager.isInteractiveMesh with the default pattern "BOOTHLAYER_curve_*"
isInteractiveMesh(mesh) == mesh.name # <<>> /\ startsWith(mesh.name, LayerPrefix)

\* boothMeshMapRef.current: the Map and whether its meshes are those of the
\* live scene
EmptyMeshMap == [live |-> FALSE, map |-> <<>>]

MeshMapSize(m) == Cardinality({i \in 1..Len(m.map) : m.map[i] # NoBooth})

\* mapBoothMeshes of every model and booth list of the scene specifications,
\* evaluated once
SceneBoothLists ==
  {MakeAreaData("Hall_C", FetchedBooths[r]).booths : r \in SceneResponses \cup {EmptyFeed}}

MappedModels ==
  [area \in SceneAreas \cup TourAreas, booths \in SceneBoothLists |->
     mapBoothMeshes(ModelScene(area), booths)]

\* what MeshManager.mapBoothMeshes leaves in boothMeshMapRef.current for a scene
\* showing the model of `area` (no object to find before the model is added)
MeshMapOf(area, loaded, booths, live) ==
  LET map == IF loaded THEN MappedModels[area, booths] ELSE <<>>
      result == [live |-> live, map |-> map]
  IN IF MeshMapSize(result) = 0 THEN EmptyMeshMap ELSE result

\* A pending callback: a model load or a setTimeout, with what the steps still
\* to come read of its closure (currentArea, showExhibitorDetails,
\* areaData.booths), and whether the scene of its closure is the live one.
Timer(kind, area, details, booths, live) ==
  [kind |-> kind, area |-> area, details |-> details, booths |-> booths, live |-> live]

TourTimer(kind, area) == Timer(kind, area, FALSE, <<>>, TRUE)

\* the timers of the area-update effect read sceneRef.current, not a closure
RemapTimer(booths) == Timer("remap", "any", FALSE, booths, TRUE)

RecolorTimer == Timer("recolor", "any", FALSE, <<>>, TRUE)

TourTimerKinds == {"pause", "done", "restart"}

Pending(t) == BagIn(t, timers)

One(t) == SetToBag({t})

\* the callbacks of the scene that is torn down stay pending, on a scene that
\* is no longer live
SceneClosureKinds == {"load", "map", "color", "names", "arm"}

StaleTimer(t) == IF t.kind \in SceneClosureKinds THEN [t EXCEPT !.live = FALSE] ELSE t

StaleBag(bag) ==
  LET S == BagToSet(bag)
      Count(t) == IF t \in S THEN bag[t] ELSE 0
  IN [r \in {StaleTimer(t) : t \in S} |->
        IF r.kind \notin SceneClosureKinds THEN bag[r]
        ELSE Count(r) + Count([r EXCEPT !.live = TRUE])]

\* the pending callbacks of the scene set-up chains, and those of the tour
CallbackCount ==
  BagCardinality([t \in {x \in BagToSet(timers) : x.kind \notin TourTimerKinds} |-> timers[t]])

TourTimerCount == BagCardinality(timers) - CallbackCount

\* a callout sprite: the booth it was drawn for, and whether it is a child of
\* the live scene (only then is it on screen)
Callout(booth, live) == [booth |-> booth, live |-> live]

SupersededCallouts(list) == [i \in 1..Len(list) |-> Callout(list[i].booth, FALSE)]

VisibleInfoCallouts == SelectSeq(callouts, LAMBDA c : c.live)

\* createAllNameCallouts: after clearNameCallouts, one name callout in the
\* live scene for every entry of the map whose booth has a name
createAllNameCallouts(meshMapNow) ==
  LET named == SelectSeq(meshMapNow.map, LAMBDA b : b # NoBooth /\ trim(b.name) # <<>>)
  IN [i \in 1..Len(named) |-> Callout(named[i], TRUE)]

\* showBoothInfoCallout: clearCallouts, then the new callout is added to the
\* scene and tracked; the list that forgets to clear first is CalloutsKept
CalloutsKept(booth, tracked) == Append(tracked, Callout(booth, TRUE))

showBoothInfoCallout(booth, tracked) == <<Callout(booth, TRUE)>>

(***************************************************************************)
(* The idle auto-tour (WebGLScene and CameraAnimator).                      *)
(* requestAnimationFrame callbacks run in the order they were requested;    *)
(* a handle is a positive number and 0 stands for null.                     *)
(***************************************************************************)
AUTO_TOUR_HALLS == <<"all_in_one", "B", "C", "E">>

\* CameraAnimator.getNextAutoTourHall, on the 0-based index of the code
getNextAutoTourHall(currentIndex) ==
  [hall |-> AUTO_TOUR_HALLS[currentIndex + 1],
   nextIndex |-> (currentIndex + 1) % Len(AUTO_TOUR_HALLS)]

NoHall == "none"

NoFrame == [ran |-> FALSE, stopped |-> FALSE, moved |-> FALSE]

\* a requested frame of animateCamera ("anim") or circularMotion ("motion"):
\* its handle, what its closure holds, whether camera and controls are those
\* of the live scene, and whether the user has interacted since its animation
\* began (history)
Frame(id, kind, hall, area, wereEnabled, live, stopped) ==
  [id |-> id, kind |-> kind, hall |-> hall, area |-> area,
   wereEnabled |-> wereEnabled, live |-> live, stopped |-> stopped]

\* requestAnimationFrame returns a handle no pending frame has
FreshHandle(queue) ==
  CHOOSE id \in 1..(Len(queue) + 1) : \A i \in 1..Len(queue) : queue[i].id # id

\* cancelAnimationFrame(handle); cancelling null does nothing
cancelAnimationFrame(queue, handle) == SelectSeq(queue, LAMBDA f : f.id # handle)

\* the tests at the head of animateCamera and of circularMotion; the frame
\* that never notices a stop is NeverStopped
NeverStopped(activeId) == FALSE

WasStopped(activeId) == activeId = 0

\* the frames a stop leaves pending belong to animations the user interrupted
Interrupted(queue) == [i \in 1..Len(queue) |-> [queue[i] EXCEPT !.stopped = TRUE]]

SupersededFrames(queue) == [i \in 1..Len(queue) |-> [queue[i] EXCEPT !.live = FALSE]]

\* CameraAnimator.stopAutoTourAnimations: the queue it leaves
StoppedQueue ==
  cancelAnimationFrame(cancelAnimationFrame(rafQueue, activeAutoTourAnimationId),
                       activeAutoTourMotionId)

\* the animations, fly-arounds and tour timers in flight
TourTokens == Len(rafQueue) + TourTimerCount

\* startAutoTour of a closure whose currentArea is `area`, with
\* focusCameraOnArea and animateCameraToPosition; the caller says what happens
\* to the timers
startAutoTour(area) ==
  IF area # "all_in_one"
  THEN UNCHANGED <<autoTourActive, currentAutoTourIndex, activeAutoTourAnimationId,
                   rafQueue, visited>>
  ELSE LET next == getNextAutoTourHall(currentAutoTourIndex)
           queue == cancelAnimationFrame(rafQueue, activeAutoTourAnimationId)
           handle == FreshHandle(queue)
       IN /\ autoTourActive' = TRUE
          /\ visited' = next.hall
          /\ currentAutoTourIndex' = next.nextIndex
          /\ rafQueue' = Append(queue, Frame(handle, "anim", next.hall, area, TRUE, TRUE, FALSE))
          /\ activeAutoTourAnimationId' = handle

\* stopAutoTour followed by the re-arming of the idle timer:
\* handleGenuineUserInteraction of the live closure
handleGenuineUserInteraction(area) ==
  /\ autoTourActive' = FALSE
  /\ activeAutoTourAnimationId' = 0
  /\ activeAutoTourMotionId' = 0
  /\ rafQueue' = Interrupted(StoppedQueue)
  /\ controlsEnabled' = IF activeAutoTourMotionId # 0 THEN TRUE ELSE controlsEnabled
  /\ autoTourTimeoutPending' = (area = "all_in_one")
  /\ lastInteractionAtArm' = (area = "all_in_one")
  /\ arrived' = NoHall
  /\ UNCHANGED <<currentAutoTourIndex, lastFrame, visited>>

\* handleCameraChange of a closure whose currentArea is `area`
handleCameraChange(area) ==
  /\ IF ~autoTourActive
     THEN /\ autoTourTimeoutPending' = (area = "all_in_one")
          /\ lastInteractionAtArm' = (area = "all_in_one")
     ELSE UNCHANGED <<autoTourTimeoutPending, lastInteractionAtArm>>
  /\ UNCHANGED <<autoTourActive, currentAutoTourIndex, activeAutoTourAnimationId,
                 activeAutoTourMotionId, rafQueue, controlsEnabled, lastFrame, visited,
                 arrived>>

(***************************************************************************)
(* Steps of the scene: callbacks.                                           *)
(***************************************************************************)
\* loader.load resolves and initModel goes on: the model is added to the scene
\* of the closure, and the 200 ms timer is set
ModelLoads(t) ==
  /\ Pending(t) /\ t.kind = "load"
  /\ modelLoaded' = IF t.live THEN TRUE ELSE modelLoaded
  /\ timers' = (timers (-) One(t)) (+) One([t EXCEPT !.kind = "map"])
  /\ UNCHANGED <<showExhibitorDetails, boothMeshMap, callouts, nameCallouts,
                 lastClickedBooth, clicks>>
  /\ UNCHANGED <<hookVars, tourVars>>

\* the 200 ms timer of initModel: mapBoothMeshes on the scene of the closure
MapTimerFires(t) ==
  /\ Pending(t) /\ t.kind = "map"
  /\ boothMeshMap' = MeshMapOf(t.area, TRUE, t.booths, t.live)
  /\ timers' = (timers (-) One(t)) (+) One(Timer("color", t.area, t.details, <<>>, t.live))
  /\ UNCHANGED <<showExhibitorDetails, modelLoaded, callouts, nameCallouts,
                 lastClickedBooth, clicks>>
  /\ UNCHANGED <<hookVars, tourVars>>

\* the 100 ms timer: applyBoothStatusColors, then the timers of the name
\* callouts (if the closure saw the switch on) and of handleCameraChange
ColorTimerFires(t) ==
  /\ Pending(t) /\ t.kind = "color"
  /\ timers' = ((timers (-) One(t)) (+) One(Timer("arm", t.area, FALSE, <<>>, t.live)))
                 (+) (IF t.details
                      THEN One(Timer("names", t.area, FALSE, <<>>, t.live)) ELSE EmptyBag)
  /\ UNCHANGED calloutVars
  /\ UNCHANGED <<hookVars, tourVars>>

\* the 100 ms timer of the name callouts: createAllNameCallouts of the render
\* of the closure, on sceneRef.current
NamesTimerFires(t) ==
  /\ Pending(t) /\ t.kind = "names"
  /\ nameCallouts' = createAllNameCallouts(boothMeshMap)
  /\ timers' = timers (-) One(t)
  /\ UNCHANGED <<showExhibitorDetails, modelLoaded, boothMeshMap, callouts,
                 lastClickedBooth, clicks>>
  /\ UNCHANGED <<hookVars, tourVars>>

\* the 500 ms timer: handleCameraChange of the closure
ArmTimerFires(t) ==
  /\ Pending(t) /\ t.kind = "arm"
  /\ handleCameraChange(t.area)
  /\ timers' = timers (-) One(t)
  /\ UNCHANGED calloutVars
  /\ UNCHANGED hookVars

\* the first 50 ms timer of the area-update effect: mapBoothMeshes on
\* sceneRef.current with the booths of the closure
RemapTimerFires(t) ==
  /\ Pending(t) /\ t.kind = "remap"
  /\ boothMeshMap' = MeshMapOf(currentArea, modelLoaded, t.booths, TRUE)
  /\ timers' = (timers (-) One(t)) (+) One(RecolorTimer)
  /\ UNCHANGED <<showExhibitorDetails, modelLoaded, callouts, nameCallouts,
                 lastClickedBooth, clicks>>
  /\ UNCHANGED <<hookVars, tourVars>>

\* its second 50 ms timer: MaterialManager.applyBoothStatusColors
RecolorTimerFires(t) ==
  /\ Pending(t) /\ t.kind = "recolor"
  /\ timers' = timers (-) One(t)
  /\ UNCHANGED calloutVars
  /\ UNCHANGED <<hookVars, tourVars>>

\* the timers that call onAutoTourComplete: the 100 ms pause at the overview
\* and the 50 ms timer after a fly-around
TourStepTimerFires(t) ==
  /\ Pending(t) /\ t.kind \in {"pause", "done"}
  /\ timers' = (timers (-) One(t))
                 (+) (IF autoTourActive THEN One(TourTimer("restart", t.area)) ELSE EmptyBag)
  /\ UNCHANGED <<hookVars, calloutVars, tourVars>>

\* the 200 ms timer of onAutoTourComplete: startAutoTour
RestartTimerFires(t) ==
  /\ Pending(t) /\ t.kind = "restart"
  /\ timers' = timers (-) One(t)
  /\ startAutoTour(t.area)
  /\ UNCHANGED <<autoTourTimeoutPending, lastInteractionAtArm, activeAutoTourMotionId,
                 controlsEnabled, lastFrame, arrived>>
  /\ UNCHANGED <<hookVars, calloutVars>>

\* the 240 s idle timer fires.  It is armed only by a closure on all_in_one
\* and 240 s after lastInteractionTimeRef was written by the call that armed
\* it; a write without re-arming may have been less than 500 ms ago.
IdleTimerFires ==
  /\ autoTourTimeoutPending
  /\ TourTokens < MaxChains
  /\ autoTourTimeoutPending' = FALSE
  /\ lastInteractionAtArm' = FALSE
  /\ \E longEnough \in {b \in BOOLEAN : lastInteractionAtArm => b} :
       IF longEnough
       THEN startAutoTour("all_in_one")
       ELSE UNCHANGED <<autoTourActive, currentAutoTourIndex, activeAutoTourAnimationId,
                        rafQueue, visited>>
  /\ UNCHANGED <<activeAutoTourMotionId, controlsEnabled, lastFrame, arrived>>
  /\ UNCHANGED <<hookVars, timers, calloutVars>>

\* the id the oldest pending frame tests
ActiveIdOf(frame) ==
  IF frame.kind = "anim" THEN activeAutoTourAnimationId ELSE activeAutoTourMotionId

\* the oldest frame runs and finds its animation stopped: it returns, a
\* fly-around after restoring controls.enabled
FrameStopped ==
  /\ rafQueue # <<>>
  /\ LET frame == Head(rafQueue)
     IN /\ WasStopped(ActiveIdOf(frame))
        /\ rafQueue' = Tail(rafQueue)
        /\ controlsEnabled' = IF frame.kind = "motion" /\ frame.live
                              THEN frame.wereEnabled ELSE controlsEnabled
        /\ lastFrame' = [ran |-> TRUE, stopped |-> frame.stopped, moved |-> FALSE]
  /\ UNCHANGED <<autoTourActive, currentAutoTourIndex, autoTourTimeoutPending,
                 lastInteractionAtArm, activeAutoTourAnimationId, activeAutoTourMotionId,
                 visited, arrived>>
  /\ UNCHANGED <<hookVars, timers, calloutVars>>

\* the oldest frame runs with progress < 1: it moves the camera and requests
\* its next frame
FrameAdvances ==
  /\ rafQueue # <<>>
  /\ LET frame == Head(rafQueue)
         handle == FreshHandle(Tail(rafQueue))
     IN /\ ~WasStopped(ActiveIdOf(frame))
        /\ rafQueue' = Append(Tail(rafQueue), [frame EXCEPT !.id = handle])
        /\ IF frame.kind = "anim"
           THEN activeAutoTourAnimationId' = handle /\ UNCHANGED activeAutoTourMotionId
           ELSE activeAutoTourMotionId' = handle /\ UNCHANGED activeAutoTourAnimationId
        /\ lastFrame' = [ran |-> TRUE, stopped |-> frame.stopped, moved |-> TRUE]
  /\ UNCHANGED <<autoTourActive, currentAutoTourIndex, autoTourTimeoutPending,
                 lastInteractionAtArm, controlsEnabled, visited, arrived>>
  /\ UNCHANGED <<hookVars, timers, calloutVars>>

\* the oldest frame runs with progress = 1.  animateCamera clears its id and
\* calls onAnimationComplete: a fly-around (performCircularMotion) for the
\* halls B, C and E, the 100 ms pause for the overview.  circularMotion clears
\* its id, restores the controls and sets the 50 ms timer.
FrameCompletes ==
  /\ rafQueue # <<>>
  /\ LET frame == Head(rafQueue)
         handle == FreshHandle(Tail(rafQueue))
     IN /\ ~WasStopped(ActiveIdOf(frame))
        /\ lastFrame' = [ran |-> TRUE, stopped |-> frame.stopped, moved |-> TRUE]
        /\ arrived' = IF frame.kind = "anim" THEN frame.hall ELSE arrived
        /\ IF frame.kind = "anim"
           THEN IF frame.hall \in {"B", "C", "E"}
                THEN /\ activeAutoTourAnimationId' = 0
                     /\ activeAutoTourMotionId' = handle
                     /\ rafQueue' = Append(Tail(rafQueue),
                                           [frame EXCEPT !.id = handle, !.kind = "motion",
                                                         !.wereEnabled = controlsEnabled])
                     /\ controlsEnabled' = IF frame.live THEN FALSE ELSE controlsEnabled
                     /\ UNCHANGED timers
                ELSE /\ activeAutoTourAnimationId' = 0
                     /\ rafQueue' = Tail(rafQueue)
                     /\ timers' = timers (+) One(TourTimer("pause", frame.area))
                     /\ UNCHANGED <<activeAutoTourMotionId, controlsEnabled>>
           ELSE /\ activeAutoTourMotionId' = 0
                /\ rafQueue' = Tail(rafQueue)
                /\ controlsEnabled' = IF frame.live THEN frame.wereEnabled ELSE controlsEnabled
                /\ timers' = timers (+) One(TourTimer("done", frame.area))
                /\ UNCHANGED activeAutoTourAnimationId
  /\ UNCHANGED <<autoTourActive, currentAutoTourIndex, autoTourTimeoutPending,
                 lastInteractionAtArm, visited>>
  /\ UNCHANGED <<hookVars, calloutVars>>

(***************************************************************************)
(* Steps of the scene: the user and the data.                               *)
(***************************************************************************)
\* CalloutManager.clearCalloutsAndResetState on sceneRef.current: the tracked
\* info callouts are removed and disposed, the last-clicked booth is reset
clearCallouts ==
  /\ callouts' = <<>>
  /\ lastClickedBooth' = NoBooth

\* the consecutive clicks on mapped booths, counted from a moment with no
\* info callout on screen
ClicksAfter(boothId) ==
  IF Len(clicks) = 1 THEN Append(clicks, boothId)
  ELSE IF VisibleInfoCallouts = <<>> THEN <<boothId>> ELSE <<>>

\* a click handler that clears every callout set, the name callouts too
onClickClearingNames(target) ==
  /\ target \in 0..Len(ModelScene(currentArea))
  /\ handleGenuineUserInteraction(currentArea)
  /\ clearCallouts
  /\ nameCallouts' = <<>>
  /\ clicks' = <<>>
  /\ UNCHANGED <<showExhibitorDetails, modelLoaded, boothMeshMap>>
  /\ UNCHANGED <<hookVars, timers>>

\* click on the canvas: `target` is the object under the pointer (0: none)
onClick(target) ==
  /\ target \in 0..Len(ModelScene(currentArea))
  /\ handleGenuineUserInteraction(currentArea)
  /\ LET hit == /\ target # 0
                /\ modelLoaded
                /\ ModelScene(currentArea)[target].mesh
                /\ isInteractiveMesh(ModelScene(currentArea)[target])
         boothData == IF hit /\ boothMeshMap.live THEN boothMeshMap.map[target] ELSE NoBooth
         isSameBooth == lastClickedBooth # NoBooth /\ lastClickedBooth.id = boothData.id
     IN IF ~hit
        THEN clearCallouts /\ clicks' = <<>>
        ELSE IF boothData = NoBooth
        THEN UNCHANGED <<callouts, lastClickedBooth>> /\ clicks' = <<>>
        ELSE /\ clicks' = ClicksAfter(boothData.id)
             /\ IF isSameBooth /\ Len(callouts) > 0
                THEN clearCallouts
                ELSE /\ callouts' = showBoothInfoCallout(boothData, callouts)
                     /\ lastClickedBooth' = boothData
  /\ UNCHANGED <<showExhibitorDetails, modelLoaded, boothMeshMap, nameCallouts>>
  /\ UNCHANGED <<hookVars, timers>>

\* mouse move on the canvas
onPointerMove ==
  /\ handleGenuineUserInteraction(currentArea)
  /\ UNCHANGED <<hookVars, timers, calloutVars>>

\* the user starts to drag, zoom or pan: the 'start' event of the controls,
\* which ignore the pointer while disabled
ControlsStart ==
  /\ controlsEnabled
  /\ handleGenuineUserInteraction(currentArea)
  /\ UNCHANGED <<hookVars, timers, calloutVars>>

\* the 'change' event of the controls: the camera moved, by the user's hand,
\* by damping or by an animation
ControlsChange ==
  /\ handleCameraChange(currentArea)
  /\ UNCHANGED <<hookVars, timers, calloutVars>>

\* the exhibitor-details effect
DetailsEffect(details) ==
  IF MeshMapSize(boothMeshMap) = 0
  THEN UNCHANGED <<callouts, lastClickedBooth, nameCallouts>>
  ELSE /\ clearCallouts
       /\ nameCallouts' = IF details THEN createAllNameCallouts(boothMeshMap) ELSE <<>>

\* the user flips the exhibitor-details switch
ToggleExhibitorDetails ==
  /\ showExhibitorDetails' = ~showExhibitorDetails
  /\ DetailsEffect(showExhibitorDetails')
  /\ clicks' = <<>>
  /\ UNCHANGED <<modelLoaded, boothMeshMap>>
  /\ UNCHANGED <<hookVars, timers, tourVars>>

\* The main effect is cleaned up and runs again: stopAutoTour, then a new
\* scene, camera, controls and canvas, and initModel of the new closure.
\* `extra` are the timers other effects of the same commit set.
RebuildScene(area, areaData, extra) ==
  /\ autoTourActive' = FALSE
  /\ activeAutoTourAnimationId' = 0
  /\ activeAutoTourMotionId' = 0
  /\ rafQueue' = SupersededFrames(Interrupted(StoppedQueue))
  /\ autoTourTimeoutPending' = FALSE
  /\ lastInteractionAtArm' = FALSE
  /\ controlsEnabled' = TRUE
  /\ arrived' = NoHall
  /\ UNCHANGED <<currentAutoTourIndex, lastFrame, visited>>
  /\ modelLoaded' = FALSE
  /\ timers' = (StaleBag(timers)
                 (+) One(Timer("load", area, showExhibitorDetails, areaData.booths, TRUE)))
                 (+) extra
  /\ boothMeshMap' = [boothMeshMap EXCEPT !.live = FALSE]
  /\ clicks' = <<>>
  /\ UNCHANGED showExhibitorDetails

\* the user picks another area of the same event: App re-renders with the
\* same areaData, only the main effect runs again
SwitchArea(a) ==
  /\ CallbackCount < MaxCallbacks
  /\ getEventType(a) = getEventType(currentArea)
  /\ SelectArea(a)
  /\ RebuildScene(a, data, EmptyBag)
  /\ callouts' = SupersededCallouts(callouts)
  /\ nameCallouts' = SupersededCallouts(nameCallouts)
  /\ UNCHANGED lastClickedBooth
  /\ UNCHANGED <<fetchVars, mapVars, pureVars>>

\* A poll of the feed (development builds) whose load completes before
\* anything else happens.  When the hook publishes new data every effect that
\* depends on it runs: the main effect, the area-update effect (if the model
\* on screen is the one of areaData.areaId) and, if areaData.areaId changed,
\* the exhibitor-details effect.
AreaDataRefresh(response) ==
  /\ development
  /\ pending = <<>>
  /\ CallbackCount + 1 < MaxCallbacks
  /\ LoadAreaData(effectArea, response)
  /\ UNCHANGED <<currentArea, effectArea, development, pending>>
  /\ IF data' = data
     THEN UNCHANGED sceneVars
     ELSE /\ RebuildScene(currentArea, data',
                          IF currentArea = data'.areaId
                          THEN One(RemapTimer(data'.booths))
                          ELSE EmptyBag)
          /\ IF data'.areaId # data.areaId /\ MeshMapSize(boothMeshMap) # 0
             THEN /\ clearCallouts
                  /\ nameCallouts' = IF showExhibitorDetails
                                     THEN createAllNameCallouts(boothMeshMap')
                                     ELSE <<>>
             ELSE /\ callouts' = SupersededCallouts(callouts)
                  /\ nameCallouts' = SupersededCallouts(nameCallouts)
                  /\ UNCHANGED lastClickedBooth
  /\ UNCHANGED <<fetchVars, mapVars, pureVars>>

(***************************************************************************)
(* The scene after App's first load: WebGLScene has mounted on Hall_C, the  *)
(* main effect has started initModel and the area-update effect has set its *)
(* first timer; the exhibitor-details effect found the map empty.           *)
(***************************************************************************)
TourIdle ==
  /\ autoTourActive = FALSE
  /\ currentAutoTourIndex = 0
  /\ autoTourTimeoutPending = FALSE
  /\ lastInteractionAtArm = FALSE
  /\ activeAutoTourAnimationId = 0
  /\ activeAutoTourMotionId = 0
  /\ rafQueue = <<>>
  /\ controlsEnabled = TRUE
  /\ lastFrame = NoFrame
  /\ visited = NoHall
  /\ arrived = NoHall

CalloutsIdle ==
  /\ showExhibitorDetails = FALSE
  /\ modelLoaded = FALSE
  /\ boothMeshMap = EmptyMeshMap
  /\ callouts = <<>>
  /\ nameCallouts = <<>>
  /\ lastClickedBooth = NoBooth
  /\ clicks = <<>>

\* no scene is mounted
SceneIdle == timers = EmptyBag /\ CalloutsIdle /\ TourIdle

SceneMounted(response) ==
  /\ currentArea = "Hall_C"
  /\ effectArea = "Hall_C"
  /\ pending = <<>>
  /\ loading = FALSE
  /\ data = MakeAreaData("Hall_C", FetchedBooths[response])
  /\ lastDataHash = DataHash(data)
  /\ lastRun = [area |-> "Hall_C", response |-> response, updated |-> TRUE]
  /\ timers = One(Timer("load", "Hall_C", FALSE, data.booths, TRUE))
                (+) One(RemapTimer(data.booths))
  /\ CalloutsIdle
  /\ TourIdle

(***************************************************************************)
(* Materials (MaterialManager) of the meshes of one loaded model.           *)
(* A material is an object two meshes may share; a colour is a hex value,   *)
(* or a hex value multiplied by a scalar (kept as twice the scalar).        *)
(***************************************************************************)
StatusGreen == 6659134   \* 0x659C3E

StatusBlue == 274601     \* 0x0430A9

\* intensity 0.3 of the hover glow, in tenths
HoverIntensityTenths == 3

\* a userData field that was never set
Undefined == -1

\* color.setHex(hex)
Hex(hex) == [hex |-> hex, twice |-> 2]

\* new THREE.Color(glowColor).multiplyScalar(1.5)
Brighter(glowColor) == [hex |-> glowColor, twice |-> 3]

Clamp255(x) == IF x > 255 THEN 255 ELSE x

\* color.getHex(): the channels, each clamped to one byte
getHex(color) ==
  LET Scaled(x) == Clamp255((x * color.twice) \div 2)
  IN Scaled(color.hex \div 65536) * 65536
       + Scaled((color.hex \div 256) % 256) * 256
       + Scaled(color.hex % 256)

Material(color, emissive, emissiveIntensity) ==
  [color |-> color, emissive |-> emissive, emissiveIntensity |-> emissiveIntensity]

\* MaterialManager.getStatusColor
getStatusColor(status) ==
  LET s == toLowerCase(status)
  IN IF s = StrSold THEN StatusGreen
     ELSE IF s = StrReserved THEN StatusGreen
     ELSE StatusBlue

\* MaterialManager.getHoverGlowColor
getHoverGlowColor(status) ==
  IF status = StrSold \/ status = StrReserved THEN StatusGreen ELSE StatusBlue

\* the meshes that hold the same material object as mesh m
SharedWith(w, m) == {k \in 1..Len(w) : w[k].material = w[m].material}

\* a write to the material object of mesh m: every mesh holding it sees it
WriteMaterial(w, m, state) ==
  [k \in 1..Len(w) |-> IF w[k].material = w[m].material
                       THEN [w[k] EXCEPT !.state = state] ELSE w[k]]

\* mesh.material = material.clone(): mesh m holds an object of its own; an
\* object is named by the first mesh that holds it. The field `clones` is
\* history: how often the material of the mesh was replaced by a clone, told
\* apart as never, once, more than once.
CloneMaterial(w, m) ==
  LET rest == SharedWith(w, m) \ {m}
      first == CHOOSE k \in rest : \A j \in rest : k <= j
  IN [k \in 1..Len(w) |-> IF k = m
                          THEN [w[k] EXCEPT !.material = m,
                                            !.clones = IF @ = 0 THEN 1 ELSE 2]
                          ELSE IF k \in rest THEN [w[k] EXCEPT !.material = first]
                          ELSE w[k]]

\* MaterialManager.cloneMaterialIfNeeded
cloneMaterialIfNeeded(w, m) ==
  IF ~w[m].userData.materialCloned
  THEN [CloneMaterial(w, m) EXCEPT ![m].userData.materialCloned = TRUE]
  ELSE w

\* MaterialManager.applyColorToMesh
applyColorToMesh(w, m, color) ==
  LET cloned == cloneMaterialIfNeeded(w, m)
      written == WriteMaterial(cloned, m, [cloned[m].state EXCEPT !.color = Hex(color)])
  IN [written EXCEPT ![m].userData.statusColor = color]

\* boothStatusMap.get(booth.id) || 'available'
StatusInList(booths, boothId) ==
  LET found == SelectSeq(booths, LAMBDA b : b.id = boothId)
  IN IF found = <<>> THEN StrAvailable
     ELSE IF found[Len(found)].status = <<>> THEN StrAvailable
     ELSE found[Len(found)].status

\* MaterialManager.applyBoothStatusColors: boothMap.forEach, from entry k on
RECURSIVE ColorMapped(_, _, _, _)
ColorMapped(w, boothMap, booths, k) ==
  IF k > Len(boothMap) THEN w
  ELSE IF boothMap[k] = NoBooth THEN ColorMapped(w, boothMap, booths, k + 1)
  ELSE LET status == StatusInList(booths, boothMap[k].id)
           colored == applyColorToMesh(w, k, getStatusColor(status))
       IN ColorMapped([colored EXCEPT ![k].userData.status = status],
                      boothMap, booths, k + 1)

applyBoothStatusColors(w, boothMap, booths) == ColorMapped(w, boothMap, booths, 1)

\* MaterialManager.applyDefaultColorsToUnmappedMeshes: scene.traverse, from
\* object k on
RECURSIVE ColorUnmapped(_, _, _, _)
ColorUnmapped(w, scene, boothMap, k) ==
  IF k > Len(scene) THEN w
  ELSE IF /\ scene[k].mesh
          /\ scene[k].name # <<>>
          /\ includes(scene[k].name, LayerPrefix)
          /\ boothMap[k] = NoBooth
       THEN ColorUnmapped([applyColorToMesh(w, k, StatusBlue)
                             EXCEPT ![k].userData.status = StrAvailable],
                          scene, boothMap, k + 1)
       ELSE ColorUnmapped(w, scene, boothMap, k + 1)

\* a colour pass that forgets the unmapped meshes
applyNoDefaultColors(w, scene, boothMap) == w

applyDefaultColorsToUnmappedMeshes(w, scene, boothMap) == ColorUnmapped(w, scene, boothMap, 1)

\* MaterialManager.applyHoverEffect
applyHoverEffect(w, m, glowColor, intensity) ==
  LET saved == [w EXCEPT ![m].userData.hoverColor = getHex(w[m].state.color)]
      cloned == CloneMaterial(saved, m)
  IN WriteMaterial(cloned, m, Material(Brighter(glowColor), glowColor, intensity))

\* an unhover that leaves the mesh as it is
removeNoHoverEffect(w, m) == w

\* MaterialManager.removeHoverEffect
removeHoverEffect(w, m) ==
  IF w[m].userData.hoverColor # Undefined
  THEN WriteMaterial(w, m, Material(Hex(w[m].userData.hoverColor), 0, 0))
  ELSE w

\* the model of the material specification: two booth meshes and the floor
ColorScene ==
  << Object(LayerDotPrefix \o IdB1, TRUE),
     Object(LayerDotPrefix \o IdC1, TRUE),
     Object(<<"F","l","o","o","r">>, TRUE) >>

Statuses == {StrSold, StrReserved, StrAvailable, StrNil}

StatusBooth(id, status) ==
  [MapperBooth(id) EXCEPT !.status = status, !.color = getColorForStatus(status)]

\* booth lists with a booth for the first mesh and, or not, one for the second
ColorBoothLists ==
  {<<StatusBooth(IdB1, s)>> : s \in Statuses}
    \cup {<<StatusBooth(IdB1, s), StatusBooth(IdC1, t)>> : s \in Statuses, t \in Statuses}

\* the colours a model comes with (0x808080, 0xffffff)
ModelColors == {8421504, 16777215}

\* initModel after the load: markInteractives and storeOriginalColor over a
\* model whose meshes came with one material each (own) or one for all, not
\* emissive (black, at the intensity 1 of a new material: 10 tenths)
LoadedMeshes(color, own) ==
  [k \in 1..Len(ColorScene) |->
     [material |-> IF own THEN k ELSE 1,
      clones |-> 0,
      state |-> Material(Hex(color), 0, 10),
      userData |-> [interactive |-> isInteractiveMesh(ColorScene[k]),
                    materialCloned |-> FALSE,
                    statusColor |-> Undefined,
                    status |-> StrUndefined,
                    hoverColor |-> Undefined,
                    origColor |-> getHex(Hex(color))]]]

NoUnhover == [done |-> FALSE]

NoColor == [hex |-> Undefined, twice |-> 2]

\* the 200 ms timer of initModel: mapBoothMeshes
MaterialMapPass ==
  /\ matPhase = "loaded"
  /\ matMeshMap' = mapBoothMeshes(ColorScene, matBooths)
  /\ matPhase' = "mapped"
  /\ UNCHANGED <<matBooths, meshes, hovered, hoverBegan, lastUnhover>>

\* the colour pass: WebGLScene.applyBoothStatusColors
ColorPass ==
  /\ matPhase \in {"mapped", "coloured"}
  /\ meshes' = applyDefaultColorsToUnmappedMeshes(
                 applyBoothStatusColors(meshes, matMeshMap, matBooths),
                 ColorScene, matMeshMap)
  /\ matPhase' = "coloured"
  /\ UNCHANGED <<matBooths, matMeshMap, hovered, hoverBegan, lastUnhover>>

\* what removeHoverEffect did to the mesh that was hovered
UnhoverOf(w) ==
  [done |-> TRUE, mesh |-> hovered, began |-> hoverBegan,
   recorded |-> meshes[hovered].userData.hoverColor,
   color |-> w[hovered].state.color,
   emissive |-> w[hovered].state.emissive,
   emissiveIntensity |-> w[hovered].state.emissiveIntensity]

\* onPointerMove over mesh `target` of the interactive meshes (0: over none)
PointerMove(target) ==
  /\ target \in 0..Len(ColorScene)
  /\ target # 0 => meshes[target].userData.interactive
  /\ IF target # 0
     THEN IF hovered # target
          THEN LET restored == IF hovered # 0 THEN removeHoverEffect(meshes, hovered)
                               ELSE meshes
                   boothData == matMeshMap[target]
                   status == IF boothData = NoBooth \/ boothData.status = <<>>
                             THEN StrAvailable ELSE toLowerCase(boothData.status)
               IN /\ meshes' = applyHoverEffect(restored, target,
                                                getHoverGlowColor(status),
                                                HoverIntensityTenths)
                  /\ hoverBegan' = restored[target].state.color
                  /\ lastUnhover' = IF hovered # 0 THEN UnhoverOf(restored)
                                    ELSE lastUnhover
                  /\ hovered' = target
          ELSE UNCHANGED <<meshes, hovered, hoverBegan, lastUnhover>>
     ELSE /\ meshes' = IF hovered # 0 THEN removeHoverEffect(meshes, hovered) ELSE meshes
          /\ lastUnhover' = IF hovered # 0 THEN UnhoverOf(meshes') ELSE lastUnhover
          /\ hoverBegan' = NoColor
          /\ hovered' = 0
  /\ UNCHANGED <<matBooths, matMeshMap, matPhase>>

MaterialIdle ==
  /\ matBooths = <<>>
  /\ matMeshMap = <<>>
  /\ matPhase = "none"
  /\ meshes = <<>>
  /\ hovered = 0
  /\ hoverBegan = NoColor
  /\ lastUnhover = NoUnhover

(***************************************************************************)
(* One camera animation (CameraAnimator.animateCameraToPosition).           *)
(* Time runs in ticks, the animation lasts Duration ticks; a coordinate is  *)
(* kept as its multiple by Duration^3, so that the easing is exact.         *)
(***************************************************************************)
Duration == 4

\* the most ticks between two frames
MaxFrameTicks == 2

Scale == Duration * Duration * Duration

\* animationProgress = Math.min(elapsed / duration, 1), in ticks of Duration
animationProgress(elapsed) == IF elapsed < Duration THEN elapsed ELSE Duration

\* an easing that runs at twice the speed, past the target
easedTwice(progress) == 2 * progress * Duration * Duration

\* eased = 1 - Math.pow(1 - animationProgress, 3), in units of 1 / Scale
eased(progress) ==
  Scale - (Duration - progress) * (Duration - progress) * (Duration - progress)

\* Vector3.lerpVectors(v1, v2, alpha) on one coordinate, alpha in units of
\* 1 / Scale, the result a multiple by Scale
lerpVectors(v1, v2, alpha) == v1 * Scale + (v2 - v1) * alpha

\* the coordinates an animation starts from and goes to
Positions == {-2, 0, 3}

LookAts == {0, 1}

\* animateCamera: one frame, `ticks` after the frame before it (after the
\* start, for the first)
animateCamera(ticks) ==
  /\ animPending
  /\ ticks \in 0..MaxFrameTicks
  /\ LET elapsed == animElapsed + ticks
         progress == animationProgress(elapsed)
     IN /\ animElapsed' = elapsed
        /\ camera' = [position |-> lerpVectors(animStart.position, animGoal.position,
                                               eased(progress)),
                      target |-> lerpVectors(animStart.target, animGoal.target,
                                             eased(progress))]
        /\ animPending' = (progress < Duration)
  /\ UNCHANGED <<animStart, animGoal>>

CameraIdle ==
  /\ animStart = [position |-> 0, target |-> 0]
  /\ animGoal = [position |-> 0, target |-> 0]
  /\ animElapsed = 0
  /\ animPending = FALSE
  /\ camera = [position |-> 0, target |-> 0]

(***************************************************************************)
(* Callout sprites (utils/meshUtils CalloutManager).                        *)
(***************************************************************************)
MaxSprites == 4

CalloutTypes == {"info", "name"}

\* a sprite of createBoothCallout: a SpriteMaterial with a CanvasTexture map
Sprite(id) == [id |-> id, material |-> TRUE, map |-> TRUE]

\* what clearCallouts does with one callout, in the order of its statements
StepsOf(callout) ==
  <<[op |-> "remove", sprite |-> callout.id]>>
  \o (IF callout.material /\ callout.map
      THEN <<[op |-> "disposeMap", sprite |-> callout.id]>> ELSE <<>>)
  \o (IF callout.material
      THEN <<[op |-> "disposeMaterial", sprite |-> callout.id]>> ELSE <<>>)

\* callouts.forEach of clearCallouts
RECURSIVE ClearingSteps(_)
ClearingSteps(calloutArray) ==
  IF calloutArray = <<>> THEN <<>>
  ELSE StepsOf(Head(calloutArray)) \o ClearingSteps(Tail(calloutArray))

StepSprites(steps, op) ==
  {steps[i].sprite : i \in {k \in 1..Len(steps) : steps[k].op = op}}

\* CalloutManager.addCalloutToScene with a sprite just created
addCalloutToScene(calloutType) ==
  /\ spritesCreated < MaxSprites
  /\ spritesCreated' = spritesCreated + 1
  /\ sceneSprites' = sceneSprites \cup {spritesCreated + 1}
  /\ calloutArrays' = [calloutArrays EXCEPT
                         ![calloutType] = Append(@, Sprite(spritesCreated + 1))]
  /\ UNCHANGED <<disposedTextures, disposedMaterials, clearSteps>>

\* CalloutManager.clearCallouts(scene, callouts) on one of the two arrays
clearCalloutArray(calloutType) ==
  LET steps == ClearingSteps(calloutArrays[calloutType])
  IN /\ clearSteps' = steps
     /\ sceneSprites' = sceneSprites \ StepSprites(steps, "remove")
     /\ disposedTextures' = disposedTextures \cup StepSprites(steps, "disposeMap")
     /\ disposedMaterials' = disposedMaterials \cup StepSprites(steps, "disposeMaterial")
     /\ calloutArrays' = [calloutArrays EXCEPT ![calloutType] = <<>>]
     /\ UNCHANGED spritesCreated

SpriteIdle ==
  /\ sceneSprites = {}
  /\ calloutArrays = [t \in CalloutTypes |-> <<>>]
  /\ disposedTextures = {}
  /\ disposedMaterials = {}
  /\ spritesCreated = 0
  /\ clearSteps = <<>>

PureIdle == MaterialIdle /\ CameraIdle /\ SpriteIdle

(***************************************************************************)
(* The text of an info callout (WebGLScene.createBoothCallout).             *)
(***************************************************************************)
\* CalloutManager.isSoldOrReserved
isSoldOrReserved(status) ==
  /\ status # <<>>
  /\ toLowerCase(status) = StrSold \/ toLowerCase(status) = StrReserved

\* a status text left as the status is
getUnformattedStatusText(status) == status

\* CalloutManager.getFormattedStatusText
getFormattedStatusText(status) ==
  toUpperCase(SubSeq(status, 1, 1)) \o toLowerCase(SubSeq(status, 2, Len(status)))

\* String.prototype.split('\n'): `line` is the line being read
RECURSIVE SplitLines(_, _)
SplitLines(text, line) ==
  IF text = <<>> THEN <<line>>
  ELSE IF Head(text) = "\n" THEN <<line>> \o SplitLines(Tail(text), <<>>)
  ELSE SplitLines(Tail(text), Append(line, Head(text)))

\* createMultiLineTextCanvas: the lines it fills, top to bottom; a blank line
\* only takes space
FilledLines(lines) == SelectSeq(lines, LAMBDA line : trim(line) # <<>>)

\* createBoothCallout: what the sprite shows, the lines of a sold or reserved
\* booth or the id, area and dimensions of any other
createBoothCallout(booth) ==
  IF isSoldOrReserved(booth.status)
  THEN LET statusText == getFormattedStatusText(booth.status)
           formattedText ==
             IF booth.name # <<>> /\ trim(booth.name) # <<>>
             THEN booth.id \o <<"\n", "\n">> \o statusText \o <<"\n", "\n">> \o booth.name
             ELSE booth.id \o <<"\n", "\n">> \o statusText
       IN [format |-> "lines", shown |-> FilledLines(SplitLines(formattedText, <<>>))]
  ELSE [format |-> "dimensions",
        shown |-> <<booth.id, booth.area, booth.width, booth.height>>]

(***************************************************************************)
(* SpecFetch: the fetcher on every response of the bound.                   *)
(***************************************************************************)
InitFetch ==
  /\ fetchResponse \in Responses
  /\ fetchReturned = FALSE
  /\ fetchResult = <<>>
  /\ HookIdle
  /\ MapperIdle
  /\ SceneIdle
  /\ PureIdle

NextFetch ==
  \/ FetchBoothInfo /\ UNCHANGED <<hookVars, mapVars, sceneVars, pureVars>>
  \/ NextRequest /\ UNCHANGED <<hookVars, mapVars, sceneVars, pureVars>>

SpecFetch == InitFetch /\ [][NextFetch]_vars

(***************************************************************************)
(* SpecData: the hook and the fetcher on every feed of the bound.           *)
(***************************************************************************)
InitData == HookInit /\ FetcherIdle /\ MapperIdle /\ SceneIdle /\ PureIdle

NextData ==
  \/ \E i \in 1..MaxInFlight, response \in HookResponses :
       LoadComplete(i, response) /\ UNCHANGED <<fetchVars, mapVars, sceneVars, pureVars>>
  \/ PollTick /\ UNCHANGED <<fetchVars, mapVars, sceneVars, pureVars>>
  \/ \E a \in AreasShown : SelectArea(a) /\ UNCHANGED <<fetchVars, mapVars, sceneVars, pureVars>>

SpecData == InitData /\ [][NextData]_vars

(***************************************************************************)
(* Claims about the booth feed and the area-data hook.                      *)
(***************************************************************************)
\* a step of the hook specification that completes a load
LoadCompletes == Len(pending') < Len(pending)

\* C6: a failed feed request gives an empty result without throwing, and a
\* failed refresh never replaces a published non-empty booth list by an empty
\* one (the published data is retained).
C6_FailedRefreshRetainsData ==
  [][(LoadCompletes /\ lastRun'.response.kind # "ok") =>
       /\ FetchedBooths[lastRun'.response] = <<>>
       /\ (data # NoData /\ data.booths # <<>>) => data'.booths # <<>>]_vars

\* C7: of two consecutive runs of the fetch-merge step with the same area and
\* the same rows, the second finds an equal hash and does not call setData;
\* the hook's first run always does, so two identical runs from the start
\* update the state exactly once.
C7_SameDataOneUpdate ==
  [][LoadCompletes =>
       /\ lastRun = NoRun => lastRun'.updated
       /\ (/\ lastRun # NoRun
           /\ lastRun'.area = lastRun.area
           /\ lastRun'.response = lastRun.response)
          => (~lastRun'.updated /\ data' = data /\ lastDataHash' = lastDataHash)]_vars

\* a run over a non-empty feed found the hash unchanged and published nothing
C7_Witness ==
  /\ lastRun # NoRun
  /\ ~lastRun.updated
  /\ lastRun.response.kind = "ok"
  /\ data # NoData
  /\ data.booths # <<>>
  /\ data = MakeAreaData(lastRun.area, FetchedBooths[lastRun.response])

\* the id prefix of a single hall
HallPrefix(areaId) ==
  CASE areaId = "Hall_B_2" -> PrefixB
    [] areaId = "Hall_C" -> PrefixC
    [] areaId = "Hall_E_3" -> PrefixE

SingleHalls == {"Hall_B_2", "Hall_C", "Hall_E_3"}

BoothsWithPrefix(booths, prefix) ==
  LET Has(booth) == startsWith(booth.id, prefix) IN SelectSeq(booths, Has)

\* C9: for a single hall the published list holds exactly the fetched booths
\* with that hall's prefix, for the overview the booths of all halls.
C9_BoothsOfTheArea ==
  (lastRun # NoRun /\ data # NoData) =>
    LET fetched == FetchedBooths[lastRun.response]
    IN /\ data.areaId \in SingleHalls =>
            data.booths = BoothsWithPrefix(fetched, HallPrefix(data.areaId))
       /\ data.areaId = "all_in_one" => data.booths = SelectSeq(fetched, IsEnergyBooth)

\* rows whose status cell is missing, the empty string or the text "undefined"
StatusIsBlank(cell) ==
  cell.t = "undefined" \/ (cell.t = "string" /\ cell.v \in {<<>>, StrUndefined})

\* C8: a row whose status is missing, empty or "undefined" yields a Booth with
\* status nil and the nil colour, which is not the colour of available.
C8_BlankStatusIsNil ==
  (fetchReturned /\ fetchResponse.kind = "ok") =>
    \A i \in 1..Len(fetchResponse.rows) :
      LET row == fetchResponse.rows[i]
          id == getStringValue(row.id, <<>>)
          last == \A j \in (i + 1)..Len(fetchResponse.rows) :
                     getStringValue(fetchResponse.rows[j].id, <<>>) # id
      IN (id # <<>> /\ last /\ StatusIsBlank(row.status)) =>
           \E k \in 1..Len(fetchResult) :
             /\ fetchResult[k].id = id
             /\ fetchResult[k].status = StrNil
             /\ fetchResult[k].color = ColorNil
             /\ ColorNil # getColorForStatus(StrAvailable)

(***************************************************************************)
(* SpecMap: mapBoothMeshes on every scene and booth list of the bound.      *)
(***************************************************************************)
InitMap ==
  /\ mapScene \in SeqsUpTo(ObjectPool, MaxMeshes)
  /\ mapBooths \in {[i \in 1..Len(ids) |-> MapperBooth(ids[i])] : ids \in BoothLists}
  /\ meshMap = ClearedMeshMap(mapScene)
  /\ mapLookups = <<>>
  /\ mapDone = FALSE
  /\ mapBefore = ClearedMeshMap(mapScene)
  /\ HookIdle
  /\ FetcherIdle
  /\ SceneIdle
  /\ PureIdle

NextMap ==
  \/ MapBoothMeshes /\ UNCHANGED <<hookVars, fetchVars, sceneVars, pureVars>>
  \/ NextBooths /\ UNCHANGED <<hookVars, fetchVars, sceneVars, pureVars>>

SpecMap == InitMap /\ [][NextMap]_vars

(***************************************************************************)
(* Spec: the scene with booths on the single halls B and C: clicks, the     *)
(* exhibitor-details switch, area switches and data refreshes.  No closure  *)
(* of these scenes arms the idle timer, so the tour never starts.           *)
(***************************************************************************)
Init ==
  /\ development = TRUE
  /\ SceneMounted(SceneFeed)
  /\ FetcherIdle
  /\ MapperIdle
  /\ PureIdle

SceneCallback(t) ==
  \/ ModelLoads(t) /\ UNCHANGED <<fetchVars, mapVars, pureVars>>
  \/ MapTimerFires(t) /\ UNCHANGED <<fetchVars, mapVars, pureVars>>
  \/ ColorTimerFires(t) /\ UNCHANGED <<fetchVars, mapVars, pureVars>>
  \/ ArmTimerFires(t) /\ UNCHANGED <<fetchVars, mapVars, pureVars>>
  \/ RemapTimerFires(t) /\ UNCHANGED <<fetchVars, mapVars, pureVars>>
  \/ RecolorTimerFires(t) /\ UNCHANGED <<fetchVars, mapVars, pureVars>>

UserInteracts ==
  \/ \E target \in 0..MaxMeshes : onClick(target) /\ UNCHANGED <<fetchVars, mapVars, pureVars>>
  \/ onPointerMove /\ UNCHANGED <<fetchVars, mapVars, pureVars>>
  \/ ControlsStart /\ UNCHANGED <<fetchVars, mapVars, pureVars>>

Next ==
  \/ \E t \in BagToSet(timers) : SceneCallback(t)
  \/ \E t \in BagToSet(timers) : NamesTimerFires(t) /\ UNCHANGED <<fetchVars, mapVars, pureVars>>
  \/ UserInteracts
  \/ ControlsChange /\ UNCHANGED <<fetchVars, mapVars, pureVars>>
  \/ ToggleExhibitorDetails /\ UNCHANGED <<fetchVars, mapVars, pureVars>>
  \/ \E a \in SceneAreas : SwitchArea(a)
  \/ \E response \in SceneResponses : AreaDataRefresh(response)

Spec == Init /\ [][Next]_vars

(***************************************************************************)
(* SpecTour: the scene with an empty feed, switched between Hall_C and the  *)
(* overview, with the idle auto-tour.  Timers fire and requested frames     *)
(* run; an animation whose frames keep running reaches its end.             *)
(***************************************************************************)
InitTour ==
  /\ development = FALSE
  /\ SceneMounted(EmptyFeed)
  /\ FetcherIdle
  /\ MapperIdle
  /\ PureIdle

TourCallback(t) ==
  \/ TourStepTimerFires(t) /\ UNCHANGED <<fetchVars, mapVars, pureVars>>
  \/ RestartTimerFires(t) /\ UNCHANGED <<fetchVars, mapVars, pureVars>>

FrameRuns ==
  \/ FrameStopped /\ UNCHANGED <<fetchVars, mapVars, pureVars>>
  \/ FrameAdvances /\ UNCHANGED <<fetchVars, mapVars, pureVars>>
  \/ FrameCompletes /\ UNCHANGED <<fetchVars, mapVars, pureVars>>

NextTour ==
  \/ \E t \in BagToSet(timers) : SceneCallback(t)
  \/ \E t \in BagToSet(timers) : TourCallback(t)
  \/ IdleTimerFires /\ UNCHANGED <<fetchVars, mapVars, pureVars>>
  \/ FrameRuns
  \/ UserInteracts
  \/ ControlsChange /\ UNCHANGED <<fetchVars, mapVars, pureVars>>
  \/ \E a \in TourAreas : SwitchArea(a)

TourTimers == {TourTimer(kind, area) : kind \in TourTimerKinds, area \in TourAreas}

SceneTimers ==
  {Timer(kind, area, FALSE, <<>>, live) :
     kind \in SceneClosureKinds, area \in TourAreas, live \in BOOLEAN}
    \cup {RemapTimer(<<>>), RecolorTimer}

TourFairness ==
  /\ \A t \in TourTimers : WF_vars(TourCallback(t))
  /\ \A t \in SceneTimers : WF_vars(SceneCallback(t))
  /\ WF_vars(IdleTimerFires /\ UNCHANGED <<fetchVars, mapVars, pureVars>>)
  /\ WF_vars(FrameRuns)
  /\ SF_vars(FrameCompletes /\ UNCHANGED <<fetchVars, mapVars, pureVars>>)

SpecTour == InitTour /\ [][NextTour]_vars /\ TourFairness

(***************************************************************************)
(* SpecMaterial: the materials of one loaded model: the mapping and the     *)
(* colour passes of initModel, and the pointer moving over the meshes.      *)
(***************************************************************************)
InitMaterial ==
  /\ matBooths \in ColorBoothLists
  /\ matMeshMap = ClearedMeshMap(ColorScene)
  /\ matPhase = "loaded"
  /\ meshes \in {LoadedMeshes(color, own) : color \in ModelColors, own \in BOOLEAN}
  /\ hovered = 0
  /\ hoverBegan = NoColor
  /\ lastUnhover = NoUnhover
  /\ CameraIdle
  /\ SpriteIdle
  /\ HookIdle
  /\ FetcherIdle
  /\ MapperIdle
  /\ SceneIdle

NextMaterial ==
  \/ MaterialMapPass /\ UNCHANGED <<hookVars, fetchVars, mapVars, sceneVars, cameraVars, spriteVars>>
  \/ ColorPass /\ UNCHANGED <<hookVars, fetchVars, mapVars, sceneVars, cameraVars, spriteVars>>
  \/ \E target \in 0..Len(ColorScene) :
       PointerMove(target) /\ UNCHANGED <<hookVars, fetchVars, mapVars, sceneVars, cameraVars, spriteVars>>

SpecMaterial == InitMaterial /\ [][NextMaterial]_vars

(***************************************************************************)
(* SpecCamera: one camera animation from every start to every goal of the   *)
(* bound, its frames up to MaxFrameTicks apart.                             *)
(***************************************************************************)
InitCamera ==
  /\ animStart \in [position : Positions, target : LookAts]
  /\ animGoal \in [position : Positions, target : LookAts]
  /\ animElapsed = 0
  /\ animPending = TRUE
  /\ camera = [position |-> animStart.position * Scale,
               target |-> animStart.target * Scale]
  /\ MaterialIdle
  /\ SpriteIdle
  /\ HookIdle
  /\ FetcherIdle
  /\ MapperIdle
  /\ SceneIdle

NextCamera ==
  \E ticks \in 0..MaxFrameTicks :
    animateCamera(ticks) /\ UNCHANGED <<hookVars, fetchVars, mapVars, sceneVars, materialVars, spriteVars>>

SpecCamera == InitCamera /\ [][NextCamera]_vars

(***************************************************************************)
(* SpecCallouts: sprites added to the two callout arrays and the arrays     *)
(* cleared, in every order, up to MaxSprites sprites.                       *)
(***************************************************************************)
InitCallouts ==
  /\ SpriteIdle
  /\ MaterialIdle
  /\ CameraIdle
  /\ HookIdle
  /\ FetcherIdle
  /\ MapperIdle
  /\ SceneIdle

NextCallouts ==
  \/ \E calloutType \in CalloutTypes :
       addCalloutToScene(calloutType)
         /\ UNCHANGED <<hookVars, fetchVars, mapVars, sceneVars, materialVars, cameraVars>>
  \/ \E calloutType \in CalloutTypes :
       clearCalloutArray(calloutType)
         /\ UNCHANGED <<hookVars, fetchVars, mapVars, sceneVars, materialVars, cameraVars>>

SpecCallouts == InitCallouts /\ [][NextCallouts]_vars

(***************************************************************************)
(* SpecRemap: the mapper called again and again on one scene as the booth   *)
(* list changes, on scenes of booth meshes and a floor.                     *)
(***************************************************************************)
RemapPool ==
  { Object(LayerDotPrefix \o IdB10, TRUE),
    Object(LayerDotPrefix \o IdC1, TRUE),
    Object(LayerPrefix \o IdB1, TRUE),
    Object(<<"F","l","o","o","r">>, TRUE) }

InitRemap ==
  /\ mapScene \in SeqsUpTo(RemapPool, MaxMeshes)
  /\ mapBooths \in {[i \in 1..Len(ids) |-> MapperBooth(ids[i])] : ids \in BoothLists}
  /\ meshMap = ClearedMeshMap(mapScene)
  /\ mapLookups = <<>>
  /\ mapDone = FALSE
  /\ mapBefore = ClearedMeshMap(mapScene)
  /\ HookIdle
  /\ FetcherIdle
  /\ SceneIdle
  /\ PureIdle

SpecRemap == InitRemap /\ [][NextMap]_vars

(***************************************************************************)
(* Claims about the mesh mapper.                                            *)
(***************************************************************************)
\* an object of the scene that one of the booth's exact patterns names
ExactlyNamed(scene, booth) ==
  LET patterns == generateMeshNamePatterns(booth.id)
  IN {j \in 1..Len(scene) :
        scene[j].mesh /\ \E k \in 1..Len(patterns) : scene[j].name = patterns[k]}

\* C10: after mapBoothMeshes every booth for which the scene holds a mesh
\* named by one of its exact patterns is bound to an exactly-named mesh, and
\* the substring fallback found the mesh only of booths that no exact pattern
\* names a mesh for.
C10_ExactNameWins ==
  mapDone =>
    \A i \in 1..Len(mapBooths) :
      LET exact == ExactlyNamed(mapScene, mapBooths[i])
      IN /\ exact # {} => \E j \in exact : meshMap[j] = mapBooths[i]
         /\ mapLookups[i] = "partial" => exact = {}

(***************************************************************************)
(* Claims about the info callouts.                                          *)
(***************************************************************************)
\* C1: starting with no info callout on screen, a click on a mapped booth X
\* followed by a click on X leaves no info callout on screen, and a click on X
\* followed by a click on another mapped booth Y leaves exactly one, Y's.
C1_ToggleSemantics ==
  Len(clicks) = 2 =>
    IF clicks[1] = clicks[2]
    THEN VisibleInfoCallouts = <<>>
    ELSE /\ Len(VisibleInfoCallouts) = 1
         /\ VisibleInfoCallouts[1].booth.id = clicks[2]

\* C2: at most one info callout is tracked, and at most one is on screen.
C2_AtMostOneInfoCallout ==
  /\ Len(callouts) <= 1
  /\ Len(VisibleInfoCallouts) <= 1

\* booth X was clicked, then another booth Y, and Y's callout replaced X's
C2_Witness ==
  /\ Len(clicks) = 2
  /\ clicks[1] # clicks[2]
  /\ Len(callouts) = 1
  /\ callouts[1].live
  /\ callouts[1].booth.id = clicks[2]

(***************************************************************************)
(* Claims about the auto-tour.                                              *)
(***************************************************************************)
\* C3: a genuine user interaction leaves the auto-tour inactive, and the tour
\* becomes active again only by the idle timer firing, that is once the whole
\* idle duration has passed without interaction: no step scheduled before the
\* interaction restarts it.
C3_InactiveUntilIdle ==
  [][/\ UserInteracts => ~autoTourActive'
     /\ (~autoTourActive /\ autoTourActive')
          => (IdleTimerFires /\ UNCHANGED <<fetchVars, mapVars, pureVars>>)]_vars

\* C4: a genuine user interaction cancels the stored frame handles of the
\* auto-tour (both ids are null afterwards and the frames they named are no
\* longer pending), and a frame of an animation that was in flight when the
\* user interacted leaves camera and target as they are.
C4_StoppedFramesLeaveCamera ==
  /\ [][UserInteracts =>
          /\ activeAutoTourAnimationId' = 0
          /\ activeAutoTourMotionId' = 0
          /\ \A i \in 1..Len(rafQueue') :
               /\ rafQueue'[i].stopped
               /\ \E j \in 1..Len(rafQueue) :
                    /\ rafQueue[j].id = rafQueue'[i].id
                    /\ rafQueue[j].id \notin {activeAutoTourAnimationId,
                                              activeAutoTourMotionId}]_vars
  /\ [](lastFrame.stopped => ~lastFrame.moved)

\* a frame of a fly-around the user interrupted ran, found the id null and
\* returned
C4_Witness ==
  /\ lastFrame.ran
  /\ lastFrame.stopped
  /\ ~lastFrame.moved

\* the hall after `hall` in the circular list
NextHallAfter(hall) ==
  LET i == CHOOSE k \in 1..Len(AUTO_TOUR_HALLS) : AUTO_TOUR_HALLS[k] = hall
  IN AUTO_TOUR_HALLS[(i % Len(AUTO_TOUR_HALLS)) + 1]

\* C5: the hall index stays inside the list; the idle timer firing on the
\* overview makes the tour active; every tour step heads for the hall after
\* the one before, in the order all_in_one, B, C, E, all_in_one, ...; between
\* two interactions the camera reaches the halls in that order, each hall
\* after the one it reached before; and while the tour is active it goes on
\* to the next hall, unless an interaction stops it.
C5_CircularTour ==
  /\ [](currentAutoTourIndex \in 0..(Len(AUTO_TOUR_HALLS) - 1))
  /\ [][(IdleTimerFires /\ currentArea = "all_in_one") => autoTourActive']_vars
  /\ [][(visited' # visited \/ currentAutoTourIndex' # currentAutoTourIndex) =>
          /\ autoTourActive'
          /\ visited' = AUTO_TOUR_HALLS[currentAutoTourIndex + 1]
          /\ currentAutoTourIndex' = (currentAutoTourIndex + 1) % Len(AUTO_TOUR_HALLS)
          /\ visited = NoHall => visited' = "all_in_one"
          /\ visited # NoHall => visited' = NextHallAfter(visited)]_vars
  /\ [][(arrived # NoHall /\ arrived' # arrived) =>
          arrived' \in {NoHall, NextHallAfter(arrived)}]_vars
  /\ \A h \in 1..Len(AUTO_TOUR_HALLS) :
       (autoTourActive /\ visited = AUTO_TOUR_HALLS[h])
         ~> (~autoTourActive \/ visited = NextHallAfter(AUTO_TOUR_HALLS[h]))

(***************************************************************************)
(* Claims about the name callouts.                                          *)
(***************************************************************************)
\* the name callouts on screen
VisibleNameCallouts == SelectSeq(nameCallouts, LAMBDA c : c.live)

\* the booths bound to a mesh of the scene on screen that have a name
NamedMappedBooths ==
  IF boothMeshMap.live
  THEN SelectSeq(boothMeshMap.map, LAMBDA b : b # NoBooth /\ trim(b.name) # <<>>)
  ELSE <<>>

\* the model is on screen and no callback of a scene set-up is pending
SceneSettled == modelLoaded /\ timers = EmptyBag

\* C11: once the model is loaded and no timer is pending, there is no name
\* callout on screen while the exhibitor-details switch is off, and while it
\* is on there is exactly one for every mapped booth with a non-blank name,
\* whenever the switch was flipped.
C11_NameCalloutsFollowToggle ==
  SceneSettled =>
    IF showExhibitorDetails
    THEN /\ Len(VisibleNameCallouts) = Len(NamedMappedBooths)
         /\ {VisibleNameCallouts[i].booth.id : i \in 1..Len(VisibleNameCallouts)}
              = {NamedMappedBooths[i].id : i \in 1..Len(NamedMappedBooths)}
    ELSE VisibleNameCallouts = <<>>

\* C12: a click on a mapped booth, on an unmapped interactive mesh, on any
\* other object or on empty space leaves the name callouts as they are; of
\* the callout state it changes only the info callouts and the last-clicked
\* booth.
C12_ClicksKeepNameCallouts ==
  [][(\E target \in 0..MaxMeshes : onClick(target)) =>
       /\ nameCallouts' = nameCallouts
       /\ UNCHANGED <<showExhibitorDetails, modelLoaded, boothMeshMap, timers>>]_vars

\* a booth was clicked with the name callouts on screen: its info callout
\* and the name callouts are there together
C12_Witness ==
  /\ Len(clicks) >= 1
  /\ lastClickedBooth # NoBooth
  /\ Len(VisibleInfoCallouts) = 1
  /\ VisibleNameCallouts # <<>>

(***************************************************************************)
(* Claims about the materials.                                              *)
(***************************************************************************)
\* C13: when the hover effect is removed from a mesh, the mesh's base colour
\* is the colour it had when the hover began, which is the value recorded
\* then, and its emissive colour and intensity are zero.
C13_HoverIsReversed ==
  lastUnhover.done =>
    /\ lastUnhover.color = lastUnhover.began
    /\ lastUnhover.color = Hex(lastUnhover.recorded)
    /\ lastUnhover.emissive = 0
    /\ lastUnhover.emissiveIntensity = 0

\* the hover over a mesh that carries the colour of a sold booth has ended
C13_Witness ==
  /\ lastUnhover.done
  /\ lastUnhover.began = Hex(StatusGreen)
  /\ hovered = 0

\* C14: the colour pass leaves every interactive mesh with a status colour:
\* the colour of its booth's status when the mesh is mapped, the colour of
\* 'available' when it is mapped to no booth.
C14_ColorPassColorsInteractives ==
  [][ColorPass =>
       \A k \in 1..Len(ColorScene) :
         meshes[k].userData.interactive =>
           LET color == IF matMeshMap[k] # NoBooth
                        THEN getStatusColor(matMeshMap[k].status)
                        ELSE getStatusColor(StrAvailable)
           IN /\ meshes'[k].state.color = Hex(color)
              /\ meshes'[k].userData.statusColor = color]_vars

\* the pass has coloured the mesh of a sold booth and a booth mesh that is
\* mapped to no booth
C14_Witness ==
  /\ matPhase = "coloured"
  /\ \E k \in 1..Len(ColorScene) :
       /\ matMeshMap[k] # NoBooth
       /\ matMeshMap[k].status = StrSold
       /\ meshes[k].userData.statusColor = StatusGreen
  /\ \E k \in 1..Len(ColorScene) :
       /\ meshes[k].userData.interactive
       /\ matMeshMap[k] = NoBooth
       /\ meshes[k].userData.statusColor = StatusBlue
       /\ meshes[k].state.color = Hex(StatusBlue)

(***************************************************************************)
(* Claims about the statuses and the colours of the fetched booths.         *)
(***************************************************************************)
\* the strings in the status cells of the response
StatusStrings ==
  {fetchResponse.rows[i].status.v :
     i \in {j \in 1..Len(fetchResponse.rows) : fetchResponse.rows[j].status.t = "string"}}

\* C15: normalizeStatus applied twice gives what it gives applied once, for
\* every status string of the feed and every status it returns, and every
\* Booth the fetch returns has a status among sold, reserved, available, nil.
C15_StatusNormalized ==
  fetchReturned =>
    /\ \A s \in StatusStrings \cup Statuses :
         normalizeStatus(normalizeStatus(s)) = normalizeStatus(s)
    /\ \A i \in 1..Len(fetchResult) : fetchResult[i].status \in Statuses

\* a fetch returned a booth of a cell "RESERVED" and a booth without status
C15_Witness ==
  /\ fetchReturned
  /\ <<"R","E","S","E","R","V","E","D">> \in StatusStrings
  /\ \E i \in 1..Len(fetchResult) : fetchResult[i].status = StrReserved
  /\ \E i \in 1..Len(fetchResult) : fetchResult[i].status = StrNil

\* C16: getColorForStatus gives the colour of each of sold, reserved,
\* available and nil, and the default colour for any other value; every Booth
\* the fetch returns has the colour getColorForStatus gives for its status.
C16_ColorFollowsStatus ==
  fetchReturned =>
    /\ getColorForStatus(StrSold) = ColorSold
    /\ getColorForStatus(StrReserved) = ColorReserved
    /\ getColorForStatus(StrAvailable) = ColorAvailable
    /\ getColorForStatus(StrNil) = ColorNil
    /\ \A s \in StatusStrings \ Statuses : getColorForStatus(s) = ColorAvailable
    /\ \A i \in 1..Len(fetchResult) :
         /\ fetchResult[i].color = getColorForStatus(fetchResult[i].status)
         /\ fetchResult[i].status = StrSold => fetchResult[i].color = ColorSold
         /\ fetchResult[i].status = StrReserved => fetchResult[i].color = ColorReserved
         /\ fetchResult[i].status = StrAvailable => fetchResult[i].color = ColorAvailable
         /\ fetchResult[i].status = StrNil => fetchResult[i].color = ColorNil

\* a fetch returned a sold booth and a booth without status, in their colours
C16_Witness ==
  /\ fetchReturned
  /\ \E i \in 1..Len(fetchResult) :
       fetchResult[i].status = StrSold /\ fetchResult[i].color = ColorSold
  /\ \E i \in 1..Len(fetchResult) :
       fetchResult[i].status = StrNil /\ fetchResult[i].color = ColorNil

\* the rows of the response that say: B-1, "Sold" in some letter case, Acme
AcmeSoldRows ==
  {i \in 1..Len(fetchResponse.rows) :
     LET row == fetchResponse.rows[i]
     IN /\ row.id = Cell(IdB1)
        /\ row.status.t = "string" /\ toLowerCase(row.status.v) = StrSold
        /\ row.name = Cell(<<"A","c","m","e">>)}

\* no later row of the response has the id of row i
LastOfItsId(i) ==
  \A j \in (i + 1)..Len(fetchResponse.rows) :
    getStringValue(fetchResponse.rows[j].id, <<>>)
      # getStringValue(fetchResponse.rows[i].id, <<>>)

\* C17: a row B-1, "Sold" in any letter case, Acme gives a Booth B-1 with
\* status sold and the colour of sold, and the info callout of that booth
\* shows B-1, then "Sold", then Acme.
C17_SoldAcmeScenario ==
  fetchReturned =>
    \A i \in AcmeSoldRows :
      LastOfItsId(i) =>
        \E k \in 1..Len(fetchResult) :
          /\ fetchResult[k].id = IdB1
          /\ fetchResult[k].status = StrSold
          /\ fetchResult[k].color = ColorSold
          /\ createBoothCallout(fetchResult[k]).format = "lines"
          /\ createBoothCallout(fetchResult[k]).shown
               = << IdB1, <<"S","o","l","d">>, <<"A","c","m","e">> >>

\* a fetch returned the booth of a row B-1, "sOLD", Acme
C17_Witness ==
  /\ fetchReturned
  /\ \E i \in AcmeSoldRows :
       /\ LastOfItsId(i)
       /\ fetchResponse.rows[i].status.v = <<"s","O","L","D">>
  /\ \E k \in 1..Len(fetchResult) :
       fetchResult[k].id = IdB1 /\ fetchResult[k].status = StrSold

(***************************************************************************)
(* Claims about the camera animation.                                       *)
(***************************************************************************)
\* x lies between a and b, the ends included
Between(x, a, b) == (a <= x /\ x <= b) \/ (b <= x /\ x <= a)

Distance(x, y) == IF x < y THEN y - x ELSE x - y

TourDrivers ==
  SelectSeq(rafQueue, LAMBDA frame : frame.live /\ ~WasStopped(ActiveIdOf(frame)))

\* C19: at most one auto-tour camera driver, camera animation or fly-around,
\* is in flight at any moment.
C19_OneTourDriver == Len(TourDrivers) <= 1

(***************************************************************************)
(* Claims about the callbacks of a scene that was torn down.                *)
(***************************************************************************)
\* a model load or a timer of the set-up chain of a torn-down scene runs
StaleCallbackRuns ==
  \E t \in BagToSet(timers) :
    /\ t.kind \in SceneClosureKinds
    /\ ~t.live
    /\ \/ ModelLoads(t)
       \/ MapTimerFires(t)
       \/ ColorTimerFires(t)
       \/ NamesTimerFires(t)
       \/ ArmTimerFires(t)

\* C20: a model load or timer started by a scene effect that has been cleaned
\* up leaves the shared mesh-to-booth map, the name callouts and the idle
\* timer as they are.
C20_StaleCallbacksInert ==
  [][StaleCallbackRuns =>
       UNCHANGED <<boothMeshMap, nameCallouts, autoTourTimeoutPending>>]_vars

(***************************************************************************)
(* Claims about the fly-around and the course of the tour.                  *)
(***************************************************************************)
\* the pending fly-around frames of the live scene that go on when they run
FlyArounds ==
  SelectSeq(rafQueue, LAMBDA frame :
    frame.kind = "motion" /\ frame.live /\ ~WasStopped(activeAutoTourMotionId))

\* the oldest pending frame is a fly-around frame of the live scene and runs
\* for the last time
FlyAroundEnds ==
  /\ rafQueue # <<>>
  /\ Head(rafQueue).kind = "motion"
  /\ Head(rafQueue).live
  /\ FrameCompletes \/ FrameStopped

\* the fly-around frames a user interaction cancels
CancelledFlyArounds ==
  SelectSeq(rafQueue, LAMBDA frame :
    frame.kind = "motion" /\ frame.live /\ frame.id = activeAutoTourMotionId)

\* C21: the orbit controls are disabled as long as a fly-around is in flight,
\* and the frame that ends a fly-around, or the user interaction that stops
\* it, leaves controls.enabled at the value it had when that fly-around began.
C21_ControlsOffDuringFlyAround ==
  /\ [](FlyArounds # <<>> => ~controlsEnabled)
  /\ [][FlyAroundEnds => controlsEnabled' = Head(rafQueue).wereEnabled]_vars
  /\ [][(CancelledFlyArounds # <<>> /\ handleGenuineUserInteraction(currentArea))
          => controlsEnabled' = CancelledFlyArounds[1].wereEnabled]_vars

\* startAutoTour sends the camera off to the next hall
MoveBegins == autoTourActive' /\ visited' # visited

\* the oldest pending frame is the last frame of a camera animation
MoveCompletes ==
  /\ rafQueue # <<>>
  /\ Head(rafQueue).kind = "anim"
  /\ FrameCompletes

\* C22: the move to a hall B, C or E is followed by a fly-around and the move
\* to the overview by none, and a move to the next hall begins only when no
\* camera animation and no fly-around of the tour is still in flight.
C22_MoveThenFlyAroundThenNext ==
  /\ [][MoveCompletes =>
          IF Head(rafQueue).hall \in {"B", "C", "E"}
          THEN activeAutoTourMotionId' # 0 /\ rafQueue'[Len(rafQueue')].kind = "motion"
          ELSE UNCHANGED activeAutoTourMotionId /\ rafQueue' = Tail(rafQueue)]_vars
  /\ [][MoveBegins => TourDrivers = <<>>]_vars

\* C23: while the auto-tour is active or one of its camera drivers is in
\* flight the area on display is all_in_one, and the idle timer starts the
\* tour on no other area.
C23_TourOnlyOnOverview ==
  /\ []((autoTourActive \/ TourDrivers # <<>>) => currentArea = "all_in_one")
  /\ [][(IdleTimerFires /\ autoTourActive') => currentArea = "all_in_one"]_vars

(***************************************************************************)
(* Claims about the published area data and the selected area.              *)
(***************************************************************************)
\* C24: once no fetch is in flight, the AreaData the hook publishes has the
\* id and the name of the area selected in the UI.
C24_DataOfSelectedArea ==
  (pending = <<>> /\ data # NoData) =>
    /\ data.areaId = currentArea
    /\ data.areaName = AreaNameOf(currentArea)

\* C25: a switch of area, which rebuilds the scene, leaves no tracked info
\* callout and no last-clicked booth, and a first click on a mapped booth,
\* made with no info callout on screen, shows that booth's info callout.
C25_CalloutsResetWithScene ==
  /\ [][(\E a \in SceneAreas : SwitchArea(a)) =>
          callouts' = <<>> /\ lastClickedBooth' = NoBooth]_vars
  /\ [](Len(clicks) = 1 =>
          /\ Len(VisibleInfoCallouts) = 1
          /\ VisibleInfoCallouts[1].booth.id = clicks[1])

(***************************************************************************)
(* Claims about the rebuilding of the mesh-to-booth map.                    *)
(***************************************************************************)
\* C26: after mapBoothMeshes every entry of the map binds a mesh of the scene
\* passed in to a booth of the list passed in; no entry of the map as it was
\* before the call survives unless the call made it again.
C26_MapRebuiltWholesale ==
  mapDone =>
    \A j \in 1..Len(meshMap) :
      meshMap[j] # NoBooth =>
        /\ j \in 1..Len(mapScene)
        /\ mapScene[j].mesh
        /\ \E i \in 1..Len(mapBooths) :
             /\ mapBooths[i] = meshMap[j]
             /\ LookupMesh(mapScene, mapBooths[i]).mesh = j

\* the map held a booth that is not in the new list; after the call the mesh
\* of that booth has no entry, and a booth of the new list is bound
C26_Witness ==
  /\ mapDone
  /\ \E j \in 1..Len(mapBefore) :
       /\ mapBefore[j] # NoBooth
       /\ \A i \in 1..Len(mapBooths) : mapBooths[i] # mapBefore[j]
       /\ meshMap[j] = NoBooth
  /\ \E j \in 1..Len(meshMap) : meshMap[j] # NoBooth

\* the booths of the list for which the lookup found a mesh
FoundBooths ==
  {i \in 1..Len(mapBooths) : LookupMesh(mapScene, mapBooths[i]).mesh # 0}

\* the entries of the Map
MapEntries == {j \in 1..Len(meshMap) : meshMap[j] # NoBooth}

\* C27: after mapBoothMeshes no mesh is claimed by two booths of the list,
\* the map has one entry per booth for which a mesh was found, and the
\* binding of every such booth is still in the map (no later booth of the
\* list overwrote it).
C27_DistinctBoothsDistinctMeshes ==
  mapDone =>
    /\ \A i, k \in FoundBooths :
         i # k => LookupMesh(mapScene, mapBooths[i]).mesh
                    # LookupMesh(mapScene, mapBooths[k]).mesh
    /\ Cardinality(MapEntries) = Cardinality(FoundBooths)
    /\ \A i \in FoundBooths :
         meshMap[LookupMesh(mapScene, mapBooths[i]).mesh] = mapBooths[i]

\* the first mesh met in traversal that passes the test, or 0
FirstInTraversal(scene, test(_)) ==
  LET hits == {i \in 1..Len(scene) : test(scene[i])}
  IN IF hits = {} THEN 0 ELSE CHOOSE i \in hits : \A j \in hits : i <= j

\* the first mesh met in traversal that the first pattern naming a mesh names
RECURSIVE FirstByPatterns(_, _)
FirstByPatterns(scene, possibleMeshNames) ==
  IF possibleMeshNames = <<>> THEN 0
  ELSE LET Named(object) == object.mesh /\ object.name = Head(possibleMeshNames)
           first == FirstInTraversal(scene, Named)
       IN IF first # 0 THEN first
          ELSE FirstByPatterns(scene, Tail(possibleMeshNames))

\* the first mesh met in traversal that passes the substring test
FirstBySubstring(scene, boothId) ==
  LET Contains(object) ==
        /\ object.mesh
        /\ object.name # <<>>
        /\ \/ includes(object.name, boothId)
           \/ includes(object.name, replaceFirst(boothId, "-", <<"_">>))
           \/ includes(object.name, replaceFirst(boothId, "-", <<>>))
  IN FirstInTraversal(scene, Contains)

FirstMatch(scene, booth) ==
  LET exact == FirstByPatterns(scene, generateMeshNamePatterns(booth.id))
  IN IF exact # 0 THEN exact ELSE FirstBySubstring(scene, booth.id)

\* C28: after mapBoothMeshes every booth of the list is bound to the first
\* mesh met in traversal that satisfies the first of its patterns naming a
\* mesh, or else the substring test; a booth with no match has no entry in the
\* map, and every other booth whose mesh no later booth claims is mapped.
C28_FirstMatchWins ==
  mapDone =>
    \A i \in 1..Len(mapBooths) :
      LET found == LookupMesh(mapScene, mapBooths[i]).mesh
      IN /\ found = FirstMatch(mapScene, mapBooths[i])
         /\ found = 0 => \A j \in MapEntries : meshMap[j] # mapBooths[i]
         /\ (/\ found # 0
             /\ \A k \in (i + 1)..Len(mapBooths) :
                  LookupMesh(mapScene, mapBooths[k]).mesh # found)
              => meshMap[found] = mapBooths[i]

(***************************************************************************)
(* Claims about the callout sprites.                                        *)
(***************************************************************************)
\* the place of the step (op, sprite) in the steps, or 0
StepAt(steps, op, sprite) ==
  LET at == {i \in 1..Len(steps) : steps[i].op = op /\ steps[i].sprite = sprite}
  IN IF at = {} THEN 0 ELSE CHOOSE i \in at : TRUE

\* C29: clearing a callout array (info or name) disposes the texture and the
\* material of each of its callouts before that callout is removed from the
\* scene, and leaves the array empty.
C29_DisposeBeforeRemove ==
  [][\A calloutType \in CalloutTypes :
       clearCalloutArray(calloutType) =>
         /\ calloutArrays'[calloutType] = <<>>
         /\ \A i \in 1..Len(calloutArrays[calloutType]) :
              LET sprite == calloutArrays[calloutType][i].id
                  removed == StepAt(clearSteps', "remove", sprite)
                  texture == StepAt(clearSteps', "disposeMap", sprite)
                  material == StepAt(clearSteps', "disposeMaterial", sprite)
              IN /\ removed # 0
                 /\ texture # 0 /\ texture < removed
                 /\ material # 0 /\ material < removed]_vars

(***************************************************************************)
(* Claims about material cloning.                                           *)
(***************************************************************************)
\* the meshes whose material object a step wrote to
WrittenMeshes == {k \in 1..Len(meshes) : meshes'[k].state # meshes[k].state}

\* C30: across status-colour applications and hover effects the material of
\* a mesh is cloned at most once, and no step changes a material object that
\* another mesh still holds.
C30_ClonedOnceNeverShared ==
  /\ [](\A m \in 1..Len(meshes) : meshes[m].clones <= 1)
  /\ [][\A k \in WrittenMeshes : SharedWith(meshes', k) = {k}]_vars

====
